---- MODULE Spec2Model ----
(***************************************************************************)
(* Deckify front ends as state machines.                                   *)
(*                                                                         *)
(*   Quick Access panel   src/unnamed/part_001        (Content component)  *)
(*   dashboard            src/dashboard/src/App.tsx                        *)
(*   dashboard sidebar    src/dashboard/src/Sidebar.tsx                    *)
(*   dashboard HTTP layer src/dashboard/src/api.ts                         *)
(*                                                                         *)
(* React state and refs are the variables; every event handler, timer      *)
(* callback and promise continuation is one action.  setTimeout timers     *)
(* carry the time left until they are due, in units of 100 ms; Tick        *)
(* advances the clock and is blocked while a timer is due.                 *)
(***************************************************************************)
EXTENDS Integers, Sequences, FiniteSets, TLC

\* ------------------------------------------------------------------ bounds

\* Concurrent backend calls of one kind that the model follows.
MaxInFlight == 2
\* Concurrent handleSettingChange calls, and concurrent handleRestart runs.
MaxPanelCalls == 1
\* The slider changes of one burst that are counted.
MaxBurst == 2

\* ------------------------------------------------------- program constants

\* setTimeout(..., 300) of the panel's volume slider, in units of 100 ms.
VOLUME_DEBOUNCE == 3
\* setTimeout(..., 500): the panel's quiet window after set_volume returned.
QUIET_WINDOW == 5
\* useState(50) of the panel's volume slider.
INITIAL_VOLUME == 50
\* setTimeout(..., 300) of the dashboard's volume slider, App.tsx:101.
DASH_VOLUME_DEBOUNCE == 3
\* setTimeout(..., 500): the dashboard's re-poll after a control command, App.tsx:90.
REPOLL_DELAY == 5
\* setTimeout(..., 300) of the sidebar's handleClose, Sidebar.tsx:260.
CLOSE_DELAY == 3
\* setTimeout(..., 300) of the search overlay's handleClose, SearchOverlay.tsx:68-70.
SEARCH_CLOSE_DELAY == 3
\* setTimeout(..., 300) of the search overlay's handleInput, in units of 100 ms.
SEARCH_DEBOUNCE == 3
\* useState<number>(50) of the dashboard's volume slider, App.tsx:10.
DASH_INITIAL_VOLUME == 50
\* useState<Settings>({ ..., bitrate: 320, ... }) of the panel.
INITIAL_BITRATE == 320

\* Sample slider / remote volumes (0..100 in the program).
Vols == {30, 50, 77}

\* An optional value (T | null | undefined) is the empty sequence or <<v>>.
Null == <<>>
Some(v) == <<v>>
Val(o) == o[1]

Min(a, b) == IF a <= b THEN a ELSE b

\* The sequence s without its i-th element.
RemoveAt(s, i) == [k \in 1..(Len(s) - 1) |-> IF k < i THEN s[k] ELSE s[k + 1]]

\* A setTimeout handle: armed until it fires or is cleared.
NoTimer == [armed |-> FALSE, left |-> 0, value |-> 0]
Timer(ms, v) == [armed |-> TRUE, left |-> ms, value |-> v]
Due(t) == t.armed /\ t.left = 0
TickTimer(t) == IF t.armed THEN [t EXCEPT !.left = t.left - 1] ELSE t

VARIABLES
  \* ---- panel (part_001, Content): React state and refs ----
  volume,                 \* useState(50): the slider's displayed value
  volumeChangeSourceRef,  \* useRef<"user" | "remote">("remote")
  volumeDebounceRef,      \* the 300 ms debounce timer of handleVolumeChange
  lastEvent,              \* useState<LibrespotEvent | null>(null)
  trackMeta,              \* useState<TrackMetadata | null>(null)
  isPlaying,              \* useState(false)
  running,                \* useState(false)
  panelError,             \* useState<string | null>(null)  (error)
  toggling,               \* useState(false)
  binaryFound,            \* useState(true)
  restartNeeded,          \* useState(false)
  settings,               \* useState<Settings>: the bitrate of the settings
  \* ---- panel: timers and backend calls in flight ----
  setVolumeCalls,         \* backendSetVolume calls in flight, in issue order
  quietTimers,            \* time left of the pending 500 ms reset timers
  getStatusCall,          \* the initial backendGetStatus() call is in flight
  toggleCall,             \* handleToggle's call in flight: "none", "start", "stop"
  restartCalls,           \* running handleRestart invocations: awaiting "stop" or "start"
  settingCalls,           \* backendSetSetting calls in flight, with the running they closed over
  \* ---- panel: history variables (not program state) ----
  userVolume,             \* the user's latest slider value, Null before any
  quietLeft,              \* time left of the 500 ms after the latest value's call returned
  lastPlayEvt,            \* the latest event among playing/started/paused/stopped/unavailable
                          \* received since isPlaying was last written by something else
  baseline,               \* what that other write (or useState) set isPlaying to
  scenario,               \* how far the event sequence changed, playing, paused has got
  lastRequested,          \* the value of the latest set_volume request, Null before any
  sentSinceChange,        \* set_volume requests issued since the latest slider change
  burstLength,            \* slider changes since the debounce timer last was not armed
  \* ---- panel: account and devices, React state and refs ----
  panelMounted,           \* the Content component is mounted
  authenticated,          \* useState(false)
  needsReauth,            \* useState(false)
  oauthLoading,           \* useState(false)
  qrCodeUrl,              \* useState<string | null>(null)
  devices,                \* useState<SpotifyDevice[]>([])
  activeDeviceIdRef,      \* useRef<string>("")
  \* ---- panel: account and devices, timers and backend calls in flight ----
  authStatusCall,         \* the initial backendGetAuthStatus() call is in flight
  getDevicesCalls,        \* backendGetDevices calls in flight, by the site that made them
  oauthStartCalls,        \* backendStartOAuth calls in flight
  logoutCalls,            \* backendLogout calls in flight
  transferCalls,          \* backendTransferPlayback calls in flight, with their device id
  transferRefreshTimers,  \* time left of the pending 1000 ms refresh timers
  playbackCalls,          \* backendControlPlayback calls in flight: action, device id
  \* ---- backend: the OAuth flow controller, as far as the panel depends on it ----
  oauthPending,           \* a PKCE verifier is pending and the callback listener runs
  \* ---- dashboard (App.tsx, App): React state and refs ----
  status,                 \* useState<StatusResponse | null>(null)
  localVolume,            \* useState<number>(50): the slider's displayed value
  progress,               \* useState(0): the progress bar's fraction, as num / den
  dashError,              \* useState<string | null>(null)  (error)
  anchorRef,              \* useRef<{positionMs, startTime, durationMs} | null>(null);
                          \* startTime is kept as the time passed since (elapsed)
  volumeTimeoutRef,       \* the 300 ms debounce timer of handleVolumeChange
  volumeDragging,         \* useRef(false)
  \* ---- dashboard: timers and requests in flight ----
  pollCalls,              \* fetchStatus() calls of poll in flight
  controlCalls,           \* controlPlayback(action) calls in flight, in issue order
  repollTimers,           \* time left of the pending 500 ms re-poll timers
  repollCalls,            \* fetchStatus() calls of re-polls in flight
  dashVolumeCalls,        \* setVolume(val) calls in flight, in issue order
  \* ---- dashboard: history variables (not program state) ----
  dashUserVolume,         \* the user's latest slider value, Null before any
  pollWhilePending,       \* a poll got a 2xx status with another volume while a
                          \* user volume change was pending
  lastObtained,           \* the body of the latest 2xx status response received
  repollObtained,         \* a re-poll has received a 2xx status response
  statusCalls,            \* the fetchStatus() calls in flight in issue order: the site
                          \* that made each, and whether the status of a call issued
                          \* after it has been applied since
  wentBack,               \* the status of a call was applied after the status of a
                          \* call issued later than it
  dashLastRequested,      \* the value of the latest /api/volume request, Null before any
  dashSentSinceChange,    \* /api/volume requests issued since the latest slider change
  dashBurstLength,        \* slider changes since the debounce timer last was not armed
  failureEscaped,         \* a failed request has left a handler as an unhandled rejection
  \* ---- dashboard: the component's life ----
  active,                 \* let active = true of the poll effect (App.tsx:20), set to
                          \* false by its cleanup when App unmounts
  \* ---- sidebar (Sidebar.tsx, Sidebar): props, React state and refs ----
  sidebarOpen,            \* the open prop: sidebarOpen of App, useState(false)
  view,                   \* useState<View>("library")
  loading,                \* useState(false)
  madeForYou,             \* useState<Playlist[]>([])
  playlists,              \* useState<Playlist[]>([])
  playlistsTotal,         \* useState(0)
  playlistsOffset,        \* useState(0)
  albums,                 \* useState<Album[]>([])
  artists,                \* useState<Artist[]>([])
  tracks,                 \* useState<PlaylistTrack[]>([])
  tracksTotal,            \* useState(0)
  tracksOffset,           \* useState(0)
  loadingTracks,          \* useState(false)
  episodes,               \* useState<Episode[]>([])
  episodesTotal,          \* useState(0)
  episodesOffset,         \* useState(0)
  artistAlbums,           \* useState<Album[]>([])
  drillReqId,             \* useRef(0)
  activeContextId,        \* useState<string | null>(null)
  \* ---- sidebar: timers and requests in flight ----
  libraryLoads,           \* Promise.all(...) of the library effect in flight
  drillCalls,             \* first-page requests of drill-ins in flight, with their reqId
  moreCalls,              \* load-more requests in flight, with the offset they carry
  closeTimers,            \* time left of the pending 300 ms timers of handleClose
  \* ---- sidebar: history variables (not program state) ----
  playlistsServed,        \* items of the playlists the server has sent in 2xx pages
  tracksServed,           \* the same for the track list of the drill-in shown
  episodesServed,         \* the same for the episode list
  staleDiscarded,         \* a first-page response has arrived after another drill-in
                          \* was opened
  \* ---- search overlay (SearchOverlay.tsx, SearchOverlay): props, state and refs ----
  searchOpen,             \* the open prop: searchOpen of App
  query,                  \* useState("")
  results,                \* useState<SearchResponse | null>(null)
  searchLoading,          \* useState(false)  (loading)
  debounceRef,            \* the 300 ms debounce timer of handleInput
  drillView,              \* useState<DrillView>(null)
  drillTracks,            \* useState<PlaylistTrack[]>([])
  drillAlbums,            \* useState<Album[]>([])
  drillContextUri,        \* useState<string | null>(null)
  drillLoading,           \* useState(false)
  \* ---- search overlay: timers and requests in flight ----
  searchCalls,            \* searchSpotify(q) calls in flight, with their query
  searchDrillCalls,       \* first-page requests of the overlay's drill-ins in flight
  searchCloseTimers,      \* time left of the pending 300 ms timers of handleClose
  \* ---- api.ts: a helper called on its own ----
  apiCall,                \* the helper called and what fetch did, Null before any
  apiPromise              \* the promise the helper returned, Null until it settles

volHistory == <<lastRequested, sentSinceChange, burstLength>>
volCtl == <<volumeChangeSourceRef, volumeDebounceRef, setVolumeCalls, quietTimers,
            userVolume, quietLeft, volHistory>>
evtState == <<lastEvent, trackMeta, isPlaying>>
ctlState == <<running, panelError, toggling, binaryFound, restartNeeded, settings>>
panelCalls == <<getStatusCall, toggleCall, restartCalls, settingCalls>>
evtHistory == <<lastPlayEvt, baseline, scenario>>
playerVars == <<volume, volCtl, evtState, ctlState, panelCalls, evtHistory>>
authState == <<authenticated, needsReauth, oauthLoading, qrCodeUrl>>
deviceState == <<devices, activeDeviceIdRef>>
acctCalls == <<authStatusCall, getDevicesCalls, oauthStartCalls, logoutCalls, transferCalls,
               playbackCalls>>
acctVars == <<panelMounted, authState, deviceState, acctCalls, transferRefreshTimers,
              oauthPending>>
panelVars == <<playerVars, acctVars>>

dashState == <<status, localVolume, progress, dashError, anchorRef>>
dashVolHistory == <<dashLastRequested, dashSentSinceChange, dashBurstLength,
                   failureEscaped>>
dashVolCtl == <<volumeTimeoutRef, volumeDragging, dashVolumeCalls, dashUserVolume,
                dashVolHistory>>
dashCalls == <<pollCalls, controlCalls, repollTimers, repollCalls>>
dashHistory == <<pollWhilePending, lastObtained, repollObtained, statusCalls, wentBack>>
dashVars == <<dashState, dashVolCtl, dashCalls, dashHistory, active>>

sideLibrary == <<madeForYou, playlists, playlistsTotal, playlistsOffset, albums, artists>>
sideTracks == <<tracks, tracksTotal, tracksOffset>>
sideEpisodes == <<episodes, episodesTotal, episodesOffset>>
sideDrill == <<sideTracks, sideEpisodes, artistAlbums, loadingTracks, drillReqId,
               activeContextId>>
sideCalls == <<libraryLoads, drillCalls, moreCalls, closeTimers>>
sideHistory == <<playlistsServed, tracksServed, episodesServed, staleDiscarded>>
sideVars == <<sidebarOpen, view, loading, sideLibrary, sideDrill, sideCalls, sideHistory>>

searchDrill == <<drillView, drillTracks, drillAlbums, drillContextUri, drillLoading>>
searchVars == <<searchOpen, query, results, searchLoading, debounceRef, searchDrill,
                searchCalls, searchDrillCalls, searchCloseTimers>>
apiVars == <<apiCall, apiPromise>>

\* The panel and the dashboard are separate programs, and App and Sidebar
\* separate components: a step of one leaves the others' state alone.
outsidePanel == <<dashVars, sideVars, searchVars, apiVars>>
\* What a step of the panel's playback part leaves alone, and what a step of
\* its account and devices part leaves alone.
outsidePlayer == <<acctVars, outsidePanel>>
outsideAcct == <<playerVars, outsidePanel>>
outsideDash == <<panelVars, sideVars, searchVars, apiVars>>
\* Every step of App but its unmounting leaves the poll effect's flag alone too.
aroundDash == <<active, outsideDash>>
outsideSide == <<panelVars, dashVars, searchVars, apiVars>>
outsideSearch == <<panelVars, dashVars, sideVars, apiVars>>
outsideApi == <<panelVars, dashVars, sideVars, searchVars>>

vars == <<panelVars, dashVars, sideVars, searchVars, apiVars>>

\* ------------------------------------------------------------ panel: data

EventTypes == {"playing", "started", "paused", "stopped", "unavailable",
               "changed", "preloading", "volume_set"}
PlayStateEvents == {"playing", "started", "paused", "stopped", "unavailable"}

LibrespotEvent(etype, track, vol) == [event |-> etype, track_id |-> track, volume |-> vol]
VolumeSetEvents ==
  {LibrespotEvent("volume_set", Null, v) : v \in {Some(x) : x \in Vols} \cup {Null}}
\* The events the agent sends: track events carry track A, volume_set a volume.
AgentEvents ==
  {LibrespotEvent(t, Some("A"), Null) : t \in EventTypes \ {"volume_set"}}
    \cup {LibrespotEvent("volume_set", Null, Some(INITIAL_VOLUME))}

TrackMetas == {"A"}
\* BITRATE_OPTIONS offered by the Audio Quality dropdown, part_001:85-89.
BitrateOptions == {160}

\* The payloads of librespot_status: running, error (error ?? null).
StatusPayloads == [running : BOOLEAN, error : {Null, Some("librespot crashed")}]
\* What get_status answers, as far as the panel reads it (part_001:141-150); of
\* its settings the bitrate.
GetStatusResults ==
  [running : BOOLEAN, binary_found : BOOLEAN,
   settings : BitrateOptions \cup {INITIAL_BITRATE},
   last_event : {Null, Some(LibrespotEvent("playing", Some("A"), Null))},
   track_meta : {Null, Some("A")}, is_playing : BOOLEAN]

\* ----------------------------------------------------- panel: volume slider

\* A user change is pending: the debounce timer is armed, a set_volume call is
\* in flight, or the call for the latest slider value returned less than 500 ms ago.
UserChangePending ==
  volumeDebounceRef.armed \/ setVolumeCalls # <<>> \/ quietLeft > 0

\* handleVolumeChange as it would be if a change left an armed timer running
\* instead of clearing it and arming a new one.
Panel_handleVolumeChange_keepsTimer(value) ==
  /\ Len(setVolumeCalls) < MaxInFlight
  /\ volume' = value
  /\ volumeChangeSourceRef' = "user"
  /\ volumeDebounceRef' = IF volumeDebounceRef.armed THEN volumeDebounceRef
                          ELSE Timer(VOLUME_DEBOUNCE, value)
  /\ userVolume' = Some(value)
  /\ setVolumeCalls' = [k \in 1..Len(setVolumeCalls) |->
                          [setVolumeCalls[k] EXCEPT !.latest = FALSE]]
  /\ quietLeft' = 0
  /\ sentSinceChange' = 0
  /\ burstLength' = IF volumeDebounceRef.armed THEN Min(burstLength + 1, MaxBurst) ELSE 1
  /\ UNCHANGED <<outsidePlayer, quietTimers, lastRequested, evtState, ctlState, panelCalls,
                 evtHistory>>

\* handleVolumeChange(value), part_001:311-320 (up to arming the timer).
Panel_handleVolumeChange(value) ==
  /\ Len(setVolumeCalls) < MaxInFlight
  /\ volume' = value
  /\ volumeChangeSourceRef' = "user"
  /\ volumeDebounceRef' = Timer(VOLUME_DEBOUNCE, value)
  /\ userVolume' = Some(value)
  /\ setVolumeCalls' = [k \in 1..Len(setVolumeCalls) |->
                          [setVolumeCalls[k] EXCEPT !.latest = FALSE]]
  /\ quietLeft' = 0
  /\ sentSinceChange' = 0
  /\ burstLength' = IF volumeDebounceRef.armed THEN Min(burstLength + 1, MaxBurst) ELSE 1
  /\ UNCHANGED <<outsidePlayer, quietTimers, lastRequested, evtState, ctlState, panelCalls,
                 evtHistory>>

\* The debounce callback starts: await backendSetVolume(value), part_001:315-316.
Panel_volumeDebounceFire ==
  /\ Due(volumeDebounceRef)
  /\ setVolumeCalls' = Append(setVolumeCalls,
                              [value |-> volumeDebounceRef.value, latest |-> TRUE])
  /\ volumeDebounceRef' = NoTimer
  /\ lastRequested' = Some(volumeDebounceRef.value)
  /\ sentSinceChange' = sentSinceChange + 1
  /\ UNCHANGED <<outsidePlayer, burstLength, volume, volumeChangeSourceRef, quietTimers, userVolume, quietLeft,
                 evtState, ctlState, panelCalls, evtHistory>>

\* backendSetVolume resolves (its result is not read): the callback goes on to
\* setTimeout(() => { volumeChangeSourceRef.current = "remote"; }, 500), part_001:317-318.
Panel_setVolumeResolved(i) ==
  /\ i \in 1..Len(setVolumeCalls)
  /\ setVolumeCalls' = RemoveAt(setVolumeCalls, i)
  /\ quietTimers' = quietTimers \cup {QUIET_WINDOW}
  /\ quietLeft' = IF setVolumeCalls[i].latest THEN QUIET_WINDOW ELSE quietLeft
  /\ UNCHANGED <<outsidePlayer, volume, volumeChangeSourceRef, volumeDebounceRef, userVolume,
                 volHistory, evtState, ctlState, panelCalls, evtHistory>>

\* backendSetVolume rejects: the await throws out of the async callback, which has
\* no try/catch, so line 318 is never reached.
Panel_setVolumeRejected(i) ==
  /\ i \in 1..Len(setVolumeCalls)
  /\ setVolumeCalls' = RemoveAt(setVolumeCalls, i)
  /\ UNCHANGED <<outsidePlayer, volume, volumeChangeSourceRef, volumeDebounceRef, quietTimers,
                 userVolume, quietLeft, volHistory, evtState, ctlState, panelCalls,
                 evtHistory>>

\* A 500 ms reset timer fires, part_001:318.
Panel_quietTimerFire ==
  /\ 0 \in quietTimers
  /\ quietTimers' = quietTimers \ {0}
  /\ volumeChangeSourceRef' = "remote"
  /\ UNCHANGED <<outsidePlayer, volume, volumeDebounceRef, setVolumeCalls, userVolume, quietLeft,
                 volHistory, evtState, ctlState, panelCalls, evtHistory>>

\* 100 ms pass in the panel; a due timer fires first.
Panel_Tick ==
  /\ ~Due(volumeDebounceRef)
  /\ 0 \notin quietTimers
  /\ \A k \in 1..Len(transferRefreshTimers) : transferRefreshTimers[k] > 0
  /\ \/ volumeDebounceRef.armed \/ quietTimers # {} \/ quietLeft > 0
     \/ transferRefreshTimers # <<>>
  /\ volumeDebounceRef' = TickTimer(volumeDebounceRef)
  /\ quietTimers' = {t - 1 : t \in quietTimers}
  /\ quietLeft' = IF quietLeft > 0 THEN quietLeft - 1 ELSE 0
  /\ transferRefreshTimers' = [k \in 1..Len(transferRefreshTimers) |->
                                 transferRefreshTimers[k] - 1]
  /\ UNCHANGED <<outsidePanel, volume, volumeChangeSourceRef, setVolumeCalls, userVolume,
                 volHistory, evtState, ctlState, panelCalls, evtHistory,
                 panelMounted, authState, deviceState, acctCalls, oauthPending>>

\* ------------------------------------------------- panel: backend listeners

\* The history of play-state events after one more event of type etype.
ScenarioAfter(etype) ==
  IF etype = "changed" THEN 1
  ELSE IF scenario = 1 /\ etype = "playing" THEN 2
  ELSE IF scenario = 2 /\ etype = "paused" THEN 3
  ELSE 0

\* isPlaying after onEvent(event), part_001:187-193.
IsPlayingAfterEvent_changedStarts(event) ==
  IF event.event \in {"playing", "started", "changed"} THEN TRUE
  ELSE IF event.event \in {"paused", "stopped", "unavailable"} THEN FALSE
  ELSE isPlaying

IsPlayingAfterEvent(event) ==
  IF event.event \in {"playing", "started"} THEN TRUE
  ELSE IF event.event = "paused" THEN FALSE
  ELSE IF event.event \in {"stopped", "unavailable"} THEN FALSE
  ELSE isPlaying

\* onEvent(event), the librespot_event listener, part_001:185-200.
onEvent(event) ==
  /\ lastEvent' = Some(event)
  /\ isPlaying' = IsPlayingAfterEvent(event)
  /\ trackMeta' = IF event.event \in {"stopped", "unavailable"} THEN Null ELSE trackMeta
  /\ volume' = IF /\ event.event = "volume_set" /\ event.volume # Null
                  /\ volumeChangeSourceRef # "user"
                 THEN Val(event.volume) ELSE volume
  /\ lastPlayEvt' = IF event.event \in PlayStateEvents THEN Some(event.event)
                    ELSE lastPlayEvt
  /\ scenario' = ScenarioAfter(event.event)
  /\ UNCHANGED <<outsidePlayer, volCtl, ctlState, panelCalls, baseline>>

\* onStatus as it would be if a crash notification also reset the last event.
onStatus_clearsLastEvent(payload) ==
  /\ running' = payload.running
  /\ panelError' = payload.error
  /\ lastEvent' = IF payload.running THEN lastEvent ELSE Null
  /\ UNCHANGED <<outsidePlayer, volume, volCtl, trackMeta, isPlaying, toggling, binaryFound,
                 restartNeeded, settings, panelCalls, evtHistory>>

\* onStatus(payload), the librespot_status listener, part_001:173-184.
onStatus(payload) ==
  /\ running' = payload.running
  /\ panelError' = payload.error
  /\ UNCHANGED <<outsidePlayer, volume, volCtl, evtState, toggling, binaryFound, restartNeeded, settings,
                 panelCalls, evtHistory>>

\* onTrackMeta(meta), the track_metadata listener, part_001:213-215.
onTrackMeta(meta) ==
  /\ trackMeta' = Some(meta)
  /\ UNCHANGED <<outsidePlayer, volume, volCtl, lastEvent, isPlaying, ctlState, panelCalls, evtHistory>>

\* backendGetStatus().then(...) of the mount effect, part_001:140-151.
Panel_getStatusResolved(s) ==
  /\ getStatusCall
  /\ getStatusCall' = FALSE
  /\ running' = s.running
  /\ binaryFound' = s.binary_found
  /\ settings' = s.settings
  /\ lastEvent' = s.last_event
  /\ trackMeta' = IF s.track_meta # Null THEN s.track_meta ELSE trackMeta
  /\ isPlaying' = IF s.is_playing THEN TRUE ELSE isPlaying
  /\ lastPlayEvt' = IF s.is_playing THEN Null ELSE lastPlayEvt
  /\ baseline' = IF s.is_playing THEN TRUE ELSE baseline
  /\ scenario' = 0
  /\ UNCHANGED <<outsidePlayer, volume, volCtl, panelError, toggling, restartNeeded,
                 toggleCall, restartCalls, settingCalls>>

\* backendGetStatus() rejects: the promise has no catch, nothing is set.
Panel_getStatusRejected ==
  /\ getStatusCall
  /\ getStatusCall' = FALSE
  /\ UNCHANGED <<outsidePlayer, volume, volCtl, evtState, ctlState, toggleCall, restartCalls,
                 settingCalls, evtHistory>>

\* ------------------------------------------------ panel: start, stop, restart

\* The calls of handleToggle, handleSettingChange and handleRestart that have
\* not returned yet.
ControlCallsPending ==
  (IF toggleCall = "none" THEN 0 ELSE 1) + Len(settingCalls) + Len(restartCalls)

\* handleToggle(checked) up to its await, part_001:237-246; the ToggleField shows
\* checked={running} and is disabled={toggling || !binaryFound}, part_001:369-375.
Panel_handleToggle ==
  /\ ~toggling /\ binaryFound
  /\ toggleCall = "none"
  /\ ControlCallsPending < MaxInFlight
  /\ toggling' = TRUE
  /\ toggleCall' = IF ~running THEN "start" ELSE "stop"
  /\ UNCHANGED <<outsidePlayer, volume, volCtl, evtState, running, panelError, binaryFound,
                 restartNeeded, settings, getStatusCall, restartCalls, settingCalls,
                 evtHistory>>

\* backendStart() of handleToggle returns, part_001:241-244 and 251-253.
Panel_toggleStartReturned(ok) ==
  /\ toggleCall = "start"
  /\ toggleCall' = "none"
  /\ panelError' = IF ~ok THEN Some("Failed to start") ELSE panelError
  /\ toggling' = FALSE
  /\ UNCHANGED <<outsidePlayer, volume, volCtl, evtState, running, binaryFound, restartNeeded, settings,
                 getStatusCall, restartCalls, settingCalls, evtHistory>>

\* backendStop() of handleToggle returns, part_001:246-253.
Panel_toggleStopReturned ==
  /\ toggleCall = "stop"
  /\ toggleCall' = "none"
  /\ lastEvent' = Null
  /\ trackMeta' = Null
  /\ isPlaying' = FALSE
  /\ toggling' = FALSE
  /\ lastPlayEvt' = Null
  /\ baseline' = FALSE
  /\ scenario' = 0
  /\ UNCHANGED <<outsidePlayer, volume, volCtl, running, panelError, binaryFound, restartNeeded, settings,
                 getStatusCall, restartCalls, settingCalls>>

\* The call of handleToggle rejects: only the finally block runs, part_001:251-253.
Panel_toggleRejected ==
  /\ toggleCall # "none"
  /\ toggleCall' = "none"
  /\ toggling' = FALSE
  /\ UNCHANGED <<outsidePlayer, volume, volCtl, evtState, running, panelError, binaryFound,
                 restartNeeded, settings, getStatusCall, restartCalls, settingCalls,
                 evtHistory>>

\* handleSettingChange("bitrate", value) up to its await, part_001:256-257; the
\* callback closes over the running of the render it was made in (deps [running]).
Panel_handleSettingChange(value) ==
  /\ Len(settingCalls) < MaxPanelCalls
  /\ ControlCallsPending < MaxInFlight
  /\ settingCalls' = Append(settingCalls,
                            [key |-> "bitrate", value |-> value, running |-> running])
  /\ UNCHANGED <<outsidePlayer, volume, volCtl, evtState, ctlState, getStatusCall, toggleCall,
                 restartCalls, evtHistory>>

\* handleSettingChange as it would be if a saved setting restarted the running
\* agent at once.
Panel_setSettingReturned_autoRestart(i, ok) ==
  /\ i \in 1..Len(settingCalls)
  /\ settingCalls' = RemoveAt(settingCalls, i)
  /\ settings' = IF ok THEN settingCalls[i].value ELSE settings
  /\ restartCalls' = IF ok /\ settingCalls[i].running /\ Len(restartCalls) < MaxPanelCalls
                      THEN Append(restartCalls, "stop") ELSE restartCalls
  /\ UNCHANGED <<outsidePlayer, volume, volCtl, evtState, running, panelError, toggling, binaryFound,
                 restartNeeded, getStatusCall, toggleCall, evtHistory>>

\* backendSetSetting returns, part_001:258-263; a rejection or ok=false sets nothing.
Panel_setSettingReturned(i, ok) ==
  /\ i \in 1..Len(settingCalls)
  /\ settingCalls' = RemoveAt(settingCalls, i)
  /\ settings' = IF ok THEN settingCalls[i].value ELSE settings
  /\ restartNeeded' = IF /\ ok
                         /\ settingCalls[i].key \in {"device_name", "bitrate"}
                         /\ settingCalls[i].running
                        THEN TRUE ELSE restartNeeded
  /\ UNCHANGED <<outsidePlayer, volume, volCtl, evtState, running, panelError, toggling, binaryFound,
                 getStatusCall, toggleCall, restartCalls, evtHistory>>

\* handleRestart() up to await backendStop(), part_001:339-340; the Restart Now
\* button is rendered while restartNeeded, part_001:550-556.
Panel_handleRestart ==
  /\ restartNeeded
  /\ Len(restartCalls) < MaxPanelCalls
  /\ ControlCallsPending < MaxInFlight
  /\ restartCalls' = Append(restartCalls, "stop")
  /\ UNCHANGED <<outsidePlayer, volume, volCtl, evtState, ctlState, getStatusCall, toggleCall,
                 settingCalls, evtHistory>>

\* backendStop() of handleRestart returns, part_001:341-344.
Panel_restartStopReturned(i) ==
  /\ i \in 1..Len(restartCalls)
  /\ restartCalls[i] = "stop"
  /\ restartCalls' = [restartCalls EXCEPT ![i] = "start"]
  /\ lastEvent' = Null
  /\ trackMeta' = Null
  /\ isPlaying' = FALSE
  /\ lastPlayEvt' = Null
  /\ baseline' = FALSE
  /\ scenario' = 0
  /\ UNCHANGED <<outsidePlayer, volume, volCtl, ctlState, getStatusCall, toggleCall, settingCalls>>

\* backendStart() of handleRestart returns, part_001:344-348.
Panel_restartStartReturned(i, ok) ==
  /\ i \in 1..Len(restartCalls)
  /\ restartCalls[i] = "start"
  /\ restartCalls' = RemoveAt(restartCalls, i)
  /\ panelError' = IF ~ok THEN Some("Failed to restart") ELSE panelError
  /\ restartNeeded' = FALSE
  /\ UNCHANGED <<outsidePlayer, volume, volCtl, evtState, running, toggling, binaryFound, settings,
                 getStatusCall, toggleCall, settingCalls, evtHistory>>

\* A call of handleRestart rejects: the rest of the handler does not run.
Panel_restartRejected(i) ==
  /\ i \in 1..Len(restartCalls)
  /\ restartCalls' = RemoveAt(restartCalls, i)
  /\ UNCHANGED <<outsidePlayer, volume, volCtl, evtState, ctlState, getStatusCall, toggleCall,
                 settingCalls, evtHistory>>

\* ------------------------------------------- panel: account and devices data

\* setTimeout(() => handleRefreshDevices(), 1000) after a transfer, part_001:335.
TRANSFER_REFRESH_DELAY == 10

DeviceIds == {"d1", "d2"}
\* A SpotifyDevice (part_001:68-74), as far as the panel's logic reads it.
SpotifyDevice(id, act) == [id |-> id, is_active |-> act]
\* The device lists the backend reports: none, one, two, with or without an
\* active device.
DeviceLists ==
  { <<>>,
    <<SpotifyDevice("d1", FALSE)>>,
    <<SpotifyDevice("d2", TRUE)>>,
    <<SpotifyDevice("d1", FALSE), SpotifyDevice("d2", TRUE)>>,
    <<SpotifyDevice("d1", FALSE), SpotifyDevice("d2", FALSE)>> }
\* What get_devices answers: { ok, devices?, error? }, part_001:43.
GetDevicesResults ==
  {[ok |-> TRUE, devices |-> Some(l)] : l \in DeviceLists}
    \cup {[ok |-> TRUE, devices |-> Null], [ok |-> FALSE, devices |-> Null]}
\* What get_auth_status answers, part_001:39.
AuthStatusResults == [authenticated : BOOLEAN, needs_reauth : BOOLEAN]
\* What start_oauth answers: { ok, landing_url?, redirect_uri?, error? }, part_001:38.
StartOAuthResults == [ok : BOOLEAN, landing_url : {Null, Some("https://deck.local/login")}]
\* The payloads of oauth_complete, part_001:201.
OAuthCompletePayloads == [authenticated : BOOLEAN]
\* The actions of the panel's control buttons, part_001:428-445.
PanelControlActions == {"pause", "next"}

\* ---------------------------------------------------------- panel: devices

\* activeDeviceIdRef.current after updateDevices(devs), part_001:134, as it would
\* be if the first device were always the target.
TargetAfterUpdate_firstDevice(devs) ==
  IF devs # <<>> THEN devs[1].id ELSE ""

\* activeDeviceIdRef.current after updateDevices(devs), part_001:134:
\* devs.find((d) => d.is_active)?.id ?? devs[0]?.id ?? "".
TargetAfterUpdate(devs) ==
  IF \E k \in 1..Len(devs) : devs[k].is_active
    THEN devs[CHOOSE k \in 1..Len(devs) :
                /\ devs[k].is_active
                /\ \A j \in 1..(k - 1) : ~devs[j].is_active].id
  ELSE IF devs # <<>> THEN devs[1].id
  ELSE ""

\* The condition under which a get_devices result is handed to updateDevices:
\* r.ok && r.devices && r.devices.length > 0 (part_001:153, 165, 218, 324).
DevicesApplied(r) == r.ok /\ r.devices # Null /\ Len(Val(r.devices)) > 0

\* The interval of the device refresh effect as it would be if the effect did
\* not depend on authenticated.
DeviceRefreshArmed_untilUnmount == panelMounted

\* The interval of the device refresh effect exists, part_001:161-169: the effect
\* runs again when authenticated changes and its cleanup clears the interval, so
\* it exists exactly while the panel is mounted and authenticated.
DeviceRefreshArmed == panelMounted /\ authenticated

\* The calls of the devices section that have not returned yet, with the refresh
\* timers of transfers that have not fired yet.
DeviceCallsPending ==
  Len(getDevicesCalls) + Len(transferCalls) + Len(transferRefreshTimers)
    + Len(playbackCalls)

\* A get_devices call is made by site (mount, interval, device_changed, refresh).
CallGetDevices(site) ==
  /\ Len(getDevicesCalls) < MaxInFlight
  /\ getDevicesCalls' = Append(getDevicesCalls, site)

\* backendGetAuthStatus().then(...) of the mount effect, part_001:152-158.
Panel_getAuthStatusResolved(s) ==
  /\ authStatusCall
  /\ authStatusCall' = FALSE
  /\ authenticated' = s.authenticated
  /\ needsReauth' = s.needs_reauth
  /\ IF s.authenticated THEN CallGetDevices("mount") ELSE UNCHANGED getDevicesCalls
  /\ UNCHANGED <<outsideAcct, panelMounted, oauthLoading, qrCodeUrl, deviceState,
                 oauthStartCalls, logoutCalls, transferCalls, playbackCalls,
                 transferRefreshTimers, oauthPending>>

\* backendGetAuthStatus() rejects: the promise has no catch, nothing is set.
Panel_getAuthStatusRejected ==
  /\ authStatusCall
  /\ authStatusCall' = FALSE
  /\ UNCHANGED <<outsideAcct, panelMounted, authState, deviceState, getDevicesCalls,
                 oauthStartCalls, logoutCalls, transferCalls, playbackCalls,
                 transferRefreshTimers, oauthPending>>

\* The 30 s interval callback starts: await backendGetDevices(), part_001:163-164.
Panel_deviceRefreshTick ==
  /\ DeviceRefreshArmed
  /\ DeviceCallsPending < MaxInFlight
  /\ CallGetDevices("interval")
  /\ UNCHANGED <<outsideAcct, panelMounted, authState, deviceState, authStatusCall,
                 oauthStartCalls, logoutCalls, transferCalls, playbackCalls,
                 transferRefreshTimers, oauthPending>>

\* onDeviceChanged(), the device_changed listener, part_001:217-219.
onDeviceChanged ==
  /\ panelMounted
  /\ DeviceCallsPending < MaxInFlight
  /\ CallGetDevices("device_changed")
  /\ UNCHANGED <<outsideAcct, panelMounted, authState, deviceState, authStatusCall,
                 oauthStartCalls, logoutCalls, transferCalls, playbackCalls,
                 transferRefreshTimers, oauthPending>>

\* handleRefreshDevices() up to its await, part_001:322-323; the Refresh Devices
\* button is rendered while authenticated, part_001:424, 473-477.
Panel_handleRefreshDevices ==
  /\ panelMounted /\ authenticated
  /\ DeviceCallsPending < MaxInFlight
  /\ CallGetDevices("refresh")
  /\ UNCHANGED <<outsideAcct, panelMounted, authState, deviceState, authStatusCall,
                 oauthStartCalls, logoutCalls, transferCalls, playbackCalls,
                 transferRefreshTimers, oauthPending>>

\* backendGetDevices() returns r to any of its callers, which all continue with
\* if (r.ok && r.devices && r.devices.length > 0) updateDevices(r.devices)
\* (part_001:153, 165, 218, 324) and updateDevices, part_001:132-135.
Panel_getDevicesReturned(i, r) ==
  /\ i \in 1..Len(getDevicesCalls)
  /\ getDevicesCalls' = RemoveAt(getDevicesCalls, i)
  /\ IF DevicesApplied(r)
       THEN /\ devices' = Val(r.devices)
            /\ activeDeviceIdRef' = TargetAfterUpdate(Val(r.devices))
       ELSE UNCHANGED deviceState
  /\ UNCHANGED <<outsideAcct, panelMounted, authState, authStatusCall,
                 oauthStartCalls, logoutCalls, transferCalls, playbackCalls,
                 transferRefreshTimers, oauthPending>>

\* backendGetDevices() rejects: no caller catches it, nothing is set.
Panel_getDevicesRejected(i) ==
  /\ i \in 1..Len(getDevicesCalls)
  /\ getDevicesCalls' = RemoveAt(getDevicesCalls, i)
  /\ UNCHANGED <<outsideAcct, panelMounted, authState, deviceState, authStatusCall,
                 oauthStartCalls, logoutCalls, transferCalls, playbackCalls,
                 transferRefreshTimers, oauthPending>>

\* handleTransferPlayback(opt) up to its await, part_001:329-330; the Device
\* dropdown offers the displayed devices while authenticated, part_001:460-472.
Panel_handleTransferPlayback(id) ==
  /\ panelMounted /\ authenticated
  /\ \E k \in 1..Len(devices) : devices[k].id = id
  /\ Len(transferCalls) + Len(transferRefreshTimers) < MaxPanelCalls
  /\ DeviceCallsPending < MaxInFlight
  /\ transferCalls' = Append(transferCalls, id)
  /\ UNCHANGED <<outsideAcct, panelMounted, authState, deviceState, authStatusCall,
                 getDevicesCalls, oauthStartCalls, logoutCalls, playbackCalls,
                 transferRefreshTimers, oauthPending>>

\* backendTransferPlayback returns, part_001:331-336.
Panel_transferReturned(i, ok) ==
  /\ i \in 1..Len(transferCalls)
  /\ transferCalls' = RemoveAt(transferCalls, i)
  /\ activeDeviceIdRef' = IF ok THEN transferCalls[i] ELSE activeDeviceIdRef
  /\ transferRefreshTimers' = IF ok THEN Append(transferRefreshTimers, TRANSFER_REFRESH_DELAY)
                              ELSE transferRefreshTimers
  /\ UNCHANGED <<outsideAcct, panelMounted, authState, devices, authStatusCall,
                 getDevicesCalls, oauthStartCalls, logoutCalls, playbackCalls,
                 oauthPending>>

\* backendTransferPlayback rejects: the rest of the handler does not run.
Panel_transferRejected(i) ==
  /\ i \in 1..Len(transferCalls)
  /\ transferCalls' = RemoveAt(transferCalls, i)
  /\ UNCHANGED <<outsideAcct, panelMounted, authState, deviceState, authStatusCall,
                 getDevicesCalls, oauthStartCalls, logoutCalls, playbackCalls,
                 transferRefreshTimers, oauthPending>>

\* The 1000 ms timer of a transfer fires: handleRefreshDevices(), part_001:335.
Panel_transferRefreshFire(i) ==
  /\ i \in 1..Len(transferRefreshTimers)
  /\ transferRefreshTimers[i] = 0
  /\ transferRefreshTimers' = RemoveAt(transferRefreshTimers, i)
  /\ CallGetDevices("refresh")
  /\ UNCHANGED <<outsideAcct, panelMounted, authState, deviceState, authStatusCall,
                 oauthStartCalls, logoutCalls, transferCalls, playbackCalls,
                 oauthPending>>

\* handlePlaybackControl(action) up to its await, part_001:299-300; the control
\* buttons are rendered while authenticated, part_001:424-445.
Panel_handlePlaybackControl(action) ==
  /\ panelMounted /\ authenticated
  /\ Len(playbackCalls) < MaxPanelCalls
  /\ DeviceCallsPending < MaxInFlight
  /\ playbackCalls' = Append(playbackCalls,
                             [action |-> action, device_id |-> activeDeviceIdRef])
  /\ UNCHANGED <<outsideAcct, panelMounted, authState, deviceState, authStatusCall,
                 getDevicesCalls, oauthStartCalls, logoutCalls, transferCalls,
                 transferRefreshTimers, oauthPending>>

\* backendControlPlayback returns or rejects, part_001:301-308: a result that is
\* not ok raises a toast, no state is set.
Panel_playbackControlSettled(i) ==
  /\ i \in 1..Len(playbackCalls)
  /\ playbackCalls' = RemoveAt(playbackCalls, i)
  /\ UNCHANGED <<outsideAcct, panelMounted, authState, deviceState, authStatusCall,
                 getDevicesCalls, oauthStartCalls, logoutCalls, transferCalls,
                 transferRefreshTimers, oauthPending>>

\* ------------------------------------------------------ panel: Spotify login

\* What startOAuth() can answer in the backend's state: OAuthAlreadyInProgress
\* while a verifier is pending, otherwise any result of its type.
StartOAuthAnswers ==
  IF oauthPending THEN {[ok |-> FALSE, landing_url |-> Null]} ELSE StartOAuthResults

\* The QR code shown once start_oauth returned result, part_001:270-271, as it
\* would be if every landing_url were displayed.
QrAfterStart_anyLandingUrl(result) ==
  IF result.landing_url # Null THEN result.landing_url ELSE qrCodeUrl

\* The QR code shown once start_oauth returned result, part_001:270-271.
QrAfterStart(result) ==
  IF result.ok /\ result.landing_url # Null THEN result.landing_url ELSE qrCodeUrl

\* handleOAuthStart() up to its await, part_001:266-269.  Reconnect is rendered
\* while authenticated && needsReauth (part_001:483-493); Connect while no QR
\* code is shown and the user is not authenticated, disabled={oauthLoading}
\* (part_001:494, 517, 522-529).
Panel_handleOAuthStart ==
  /\ panelMounted
  /\ \/ authenticated /\ needsReauth
     \/ qrCodeUrl = Null /\ ~authenticated /\ ~oauthLoading
  /\ oauthStartCalls < MaxInFlight
  /\ oauthLoading' = TRUE
  /\ oauthStartCalls' = oauthStartCalls + 1
  /\ UNCHANGED <<outsideAcct, panelMounted, authenticated, needsReauth, qrCodeUrl,
                 deviceState, authStatusCall, getDevicesCalls, logoutCalls,
                 transferCalls, playbackCalls, transferRefreshTimers, oauthPending>>

\* backendStartOAuth() returns result, part_001:269-281; the backend has started
\* a login attempt exactly when it reports ok.
Panel_oauthStartReturned(result) ==
  /\ oauthStartCalls > 0
  /\ result \in StartOAuthAnswers
  /\ oauthStartCalls' = oauthStartCalls - 1
  /\ oauthPending' = (oauthPending \/ result.ok)
  /\ qrCodeUrl' = QrAfterStart(result)
  /\ oauthLoading' = IF result.ok /\ result.landing_url # Null THEN oauthLoading
                     ELSE FALSE
  /\ UNCHANGED <<outsideAcct, panelMounted, authenticated, needsReauth,
                 deviceState, authStatusCall, getDevicesCalls, logoutCalls,
                 transferCalls, playbackCalls, transferRefreshTimers>>

\* backendStartOAuth() throws: catch { setOauthLoading(false); }, part_001:281-283.
Panel_oauthStartRejected ==
  /\ oauthStartCalls > 0
  /\ oauthStartCalls' = oauthStartCalls - 1
  /\ oauthLoading' = FALSE
  /\ UNCHANGED <<outsideAcct, panelMounted, authenticated, needsReauth, qrCodeUrl,
                 deviceState, authStatusCall, getDevicesCalls, logoutCalls,
                 transferCalls, playbackCalls, transferRefreshTimers, oauthPending>>

\* handleOAuthCancel(), part_001:286-289; the Cancel button is rendered under the
\* QR code, part_001:494-514.  The handler calls no backend function.
Panel_handleOAuthCancel ==
  /\ panelMounted
  /\ qrCodeUrl # Null
  /\ oauthLoading' = FALSE
  /\ qrCodeUrl' = Null
  /\ UNCHANGED <<outsideAcct, panelMounted, authenticated, needsReauth,
                 deviceState, acctCalls, transferRefreshTimers, oauthPending>>

\* onOAuthComplete as it would be if it ended the login only while a QR code
\* is shown.
onOAuthComplete_whileQrShown(payload) ==
  /\ panelMounted
  /\ oauthPending
  /\ oauthPending' = FALSE
  /\ authenticated' = payload.authenticated
  /\ needsReauth' = FALSE
  /\ oauthLoading' = IF qrCodeUrl # Null THEN FALSE ELSE oauthLoading
  /\ qrCodeUrl' = Null
  /\ UNCHANGED <<outsideAcct, panelMounted, deviceState, acctCalls,
                 transferRefreshTimers>>

\* onOAuthComplete(payload), the oauth_complete listener, part_001:201-212; the
\* backend sends the notification when the callback of the pending attempt has
\* been handled, which ends the attempt.
onOAuthComplete(payload) ==
  /\ panelMounted
  /\ oauthPending
  /\ oauthPending' = FALSE
  /\ authenticated' = payload.authenticated
  /\ needsReauth' = FALSE
  /\ oauthLoading' = FALSE
  /\ qrCodeUrl' = Null
  /\ UNCHANGED <<outsideAcct, panelMounted, deviceState, acctCalls,
                 transferRefreshTimers>>

\* The pending attempt ends without a notification reaching the panel: the
\* listener timed out, or the callback was handled while the panel was closed.
Backend_oauthEnds ==
  /\ oauthPending
  /\ oauthPending' = FALSE
  /\ UNCHANGED <<outsideAcct, panelMounted, authState, deviceState, acctCalls,
                 transferRefreshTimers>>

\* handleLogout() up to its await, part_001:291-292; Disconnect is rendered while
\* authenticated and no QR code is shown, part_001:494, 517-520.
Panel_handleLogout ==
  /\ panelMounted
  /\ authenticated /\ qrCodeUrl = Null
  /\ logoutCalls < MaxPanelCalls
  /\ logoutCalls' = logoutCalls + 1
  /\ UNCHANGED <<outsideAcct, panelMounted, authState, deviceState, authStatusCall,
                 getDevicesCalls, oauthStartCalls, transferCalls, playbackCalls,
                 transferRefreshTimers, oauthPending>>

\* backendLogout() returns, part_001:293-296.
Panel_logoutReturned ==
  /\ logoutCalls > 0
  /\ logoutCalls' = logoutCalls - 1
  /\ authenticated' = FALSE
  /\ needsReauth' = FALSE
  /\ trackMeta' = Null
  /\ qrCodeUrl' = Null
  /\ UNCHANGED <<outsidePanel, volume, volCtl, lastEvent, isPlaying, ctlState, panelCalls,
                 evtHistory, panelMounted, oauthLoading, deviceState, authStatusCall,
                 getDevicesCalls, oauthStartCalls, transferCalls, playbackCalls,
                 transferRefreshTimers, oauthPending>>

\* backendLogout() rejects: the rest of the handler does not run.
Panel_logoutRejected ==
  /\ logoutCalls > 0
  /\ logoutCalls' = logoutCalls - 1
  /\ UNCHANGED <<outsideAcct, panelMounted, authState, deviceState, authStatusCall,
                 getDevicesCalls, oauthStartCalls, transferCalls, playbackCalls,
                 transferRefreshTimers, oauthPending>>

\* The Quick Access panel closes and Content unmounts: the buttons and sliders
\* are gone, the listeners are removed (part_001:227-233) and the refresh interval
\* is cleared (part_001:168).  Timers of setTimeout and calls in flight are not
\* cancelled.
Panel_unmount ==
  /\ panelMounted
  /\ panelMounted' = FALSE
  /\ UNCHANGED <<outsideAcct, authState, deviceState, acctCalls,
                 transferRefreshTimers, oauthPending>>

\* ------------------------------------------------- dashboard: HTTP layer

\* The largest number of nested jsonOrThrow frames the call stack holds.
MaxStack == 3
\* The longest time since the anchor that the model follows, in units of 100 ms.
MaxElapsed == 6

\* What fetch() does: it rejects (the backend cannot be reached) or resolves with
\* a Response, whose ok says whether the HTTP status is 2xx.
NetworkFailure == [kind |-> "failed", ok |-> FALSE, body |-> Null]
HttpError == [kind |-> "response", ok |-> FALSE, body |-> Null]
HttpOk(b) == [kind |-> "response", ok |-> TRUE, body |-> Some(b)]

\* A settled promise.
Resolved(v) == [state |-> "resolved", reason |-> "", value |-> Some(v)]
Rejected(why) == [state |-> "rejected", reason |-> why, value |-> Null]

\* jsonOrThrow as it would be if it ended in res.json().
jsonOrThrow_parsesBody(res) ==
  IF ~res.ok THEN Rejected("API error") ELSE Resolved(Val(res.body))

\* jsonOrThrow(res), api.ts:1-4: it throws on a non-2xx response and otherwise
\* returns jsonOrThrow(res), one more frame each time, until the call stack is
\* exhausted and the innermost call throws a RangeError, which every outer frame
\* passes on.
RECURSIVE jsonOrThrowFrame(_, _)
jsonOrThrowFrame(res, depth) ==
  IF ~res.ok THEN Rejected("API error")
  ELSE IF depth >= MaxStack THEN Rejected("RangeError")
  ELSE jsonOrThrowFrame(res, depth + 1)

jsonOrThrow(res) == jsonOrThrowFrame(res, 0)

\* fetchStatus(), api.ts:25-28, given what fetch did.
fetchStatus(net) ==
  IF net.kind = "failed" THEN Rejected("fetch failed") ELSE jsonOrThrow(net)

\* controlPlayback(action), api.ts:30-33, given what fetch did.
controlPlayback(net) ==
  IF net.kind = "failed" THEN Rejected("fetch failed") ELSE jsonOrThrow(net)

\* setVolume(value), api.ts:35-38, given what fetch did.
setVolume(net) ==
  IF net.kind = "failed" THEN Rejected("fetch failed") ELSE jsonOrThrow(net)

\* ------------------------------------------------------- dashboard: data

\* Sample positions and the duration of the sample track, in units of 100 ms.
Positions == {0, 2, 5}
TrackDurations == {4}
\* Sample slider values and the volume the backend reports.
DashVols == {30, 77}
ReportedVols == {77}

\* StatusResponse, api.ts:15-23, as far as App reads it.
StatusResponses ==
  [is_playing : BOOLEAN, position_ms : Positions,
   track : {Null} \cup {Some([duration_ms |-> d]) : d \in TrackDurations},
   volume : {Null} \cup {Some(v) : v \in ReportedVols}]
\* { ok: boolean; error?: string }, the body of /api/control and /api/volume.
OkBody == [ok |-> TRUE]

\* What fetch("/api/status") can do.
StatusFetches == {NetworkFailure, HttpError} \cup {HttpOk(b) : b \in StatusResponses}
\* What fetch of /api/control or /api/volume can do.
CommandFetches == {NetworkFailure, HttpError, HttpOk(OkBody)}

\* handleControl(action) is called with these, App.tsx:172-189.
ControlActions == {"play", "pause", "next", "previous"}

\* A fraction num / den with den > 0; Math.min on fractions.
Frac(n, d) == [num |-> n, den |-> d]
FracMin(a, b) == IF a.num * b.den <= b.num * a.den THEN a ELSE b

\* ------------------------------------------------ dashboard: what is rendered

\* isPlaying, durationMs and currentMs of a render, App.tsx:104-109.
DashIsPlaying == IF status = Null THEN FALSE ELSE Val(status).is_playing
durationMs ==
  IF status = Null \/ Val(status).track = Null THEN 0
  ELSE Val(Val(status).track).duration_ms
currentMs ==
  IF anchorRef = Null THEN 0
  ELSE Val(anchorRef).positionMs + (IF DashIsPlaying THEN Val(anchorRef).elapsed ELSE 0)
\* The elapsed time shown, formatMs(Math.min(currentMs, durationMs)), App.tsx:164.
elapsedShown == Min(currentMs, durationMs)

\* ------------------------------------------------- dashboard: progress bar

\* The progress tick as it would be without Math.min.
ProgressAfterTick_unclamped(anchor, prog) ==
  IF anchor = Null \/ Val(anchor).durationMs <= 0 THEN prog
  ELSE Frac(Val(anchor).positionMs + Val(anchor).elapsed, Val(anchor).durationMs)

\* progress after one run of the 250 ms interval callback, App.tsx:57-62.
ProgressAfterTick(anchor, prog) ==
  IF anchor = Null \/ Val(anchor).durationMs <= 0 THEN prog
  ELSE FracMin(Frac(Val(anchor).positionMs + Val(anchor).elapsed, Val(anchor).durationMs),
               Frac(1, 1))

\* progress after the effect that runs when status changed, App.tsx:67-74.
ProgressAfterPausedSync(st, anchor, prog) ==
  IF st # Null /\ ~Val(st).is_playing /\ anchor # Null /\ Val(anchor).durationMs > 0
  THEN FracMin(Frac(Val(anchor).positionMs, Val(anchor).durationMs), Frac(1, 1))
  ELSE prog

\* The position a status without a track change, pause/resume or seek reports:
\* the anchor's position, moved on by the time since while playing.
ExpectedPosition ==
  IF Val(status).is_playing THEN Val(anchorRef).positionMs + Val(anchorRef).elapsed
  ELSE Val(anchorRef).positionMs

\* Status s reports no track change, no pause/resume and no seek.
NoExplicitEvent(s) ==
  /\ status # Null /\ anchorRef # Null
  /\ s.is_playing = Val(status).is_playing
  /\ s.track = Val(status).track
  /\ s.position_ms = ExpectedPosition

\* anchorRef.current after a poll as it would be if the anchor were kept unless
\* the status reports a track change, a pause/resume or a seek.
AnchorAfterPoll_onEventsOnly(s) ==
  IF s.track # Null /\ Val(s.track).duration_ms > 0
  THEN IF NoExplicitEvent(s) THEN anchorRef
       ELSE Some([positionMs |-> s.position_ms, elapsed |-> 0,
                  durationMs |-> Val(s.track).duration_ms])
  ELSE Null

\* anchorRef.current after poll got status s, App.tsx:29-37.
AnchorAfterPoll(s) ==
  IF s.track # Null /\ Val(s.track).duration_ms > 0
  THEN Some([positionMs |-> s.position_ms, elapsed |-> 0,
             durationMs |-> Val(s.track).duration_ms])
  ELSE Null

\* --------------------------------------------------- dashboard: status poll

\* A user volume change is pending: the debounce timer is armed or the setVolume
\* request carrying the latest slider value has not completed.
DashChangePending ==
  volumeTimeoutRef.armed \/ \E k \in 1..Len(dashVolumeCalls) : dashVolumeCalls[k].latest

\* A fetchStatus() call in flight, made by poll or by the re-poll of handleControl.
StatusCall(site) == [site |-> site, overtaken |-> FALSE]
\* The calls in flight that site made.
SiteCalls(site) == {k \in 1..Len(statusCalls) : statusCalls[k].site = site}
\* The call at i settles, and its status is applied or not: when it is, the calls
\* issued before it have been overtaken.
StatusCallSettled(i, applied) ==
  /\ statusCalls' = RemoveAt([k \in 1..Len(statusCalls) |->
                                IF applied /\ k < i
                                THEN [statusCalls[k] EXCEPT !.overtaken = TRUE]
                                ELSE statusCalls[k]], i)
  /\ wentBack' = (wentBack \/ (applied /\ statusCalls[i].overtaken))

\* poll() up to its await, App.tsx:22-24, called on mount and every 3 s (line 49-50).
Dash_poll ==
  /\ active
  /\ pollCalls < MaxInFlight
  /\ pollCalls' = pollCalls + 1
  /\ statusCalls' = Append(statusCalls, StatusCall("poll"))
  /\ UNCHANGED <<aroundDash, dashState, dashVolCtl, controlCalls, repollTimers,
                 repollCalls, pollWhilePending, lastObtained, repollObtained, wentBack>>

\* What poll does with the status s it got, App.tsx:26-43; the effect of
\* App.tsx:67-74 runs on the new status.
PollApplied(s) ==
  /\ status' = Some(s)
  /\ anchorRef' = AnchorAfterPoll(s)
  /\ progress' = ProgressAfterPausedSync(
                   Some(s), AnchorAfterPoll(s),
                   IF AnchorAfterPoll(s) = Null THEN Frac(0, 1) ELSE progress)
  /\ localVolume' = IF s.volume # Null /\ ~volumeDragging
                    THEN Val(s.volume) ELSE localVolume
  /\ dashError' = Null

\* The rest of poll once await fetchStatus() has given it status s, App.tsx:25-43.
Dash_pollResolved(s) ==
  /\ pollCalls > 0
  /\ pollCalls' = pollCalls - 1
  /\ IF active THEN PollApplied(s)
     ELSE UNCHANGED <<status, anchorRef, progress, localVolume, dashError>>
  /\ \E i \in SiteCalls("poll") : StatusCallSettled(i, active)
  /\ lastObtained' = Some(s)
  /\ pollWhilePending' =
       \/ pollWhilePending
       \/ DashChangePending /\ s.volume \notin {Null, dashUserVolume}
  /\ UNCHANGED <<aroundDash, dashVolCtl, controlCalls, repollTimers, repollCalls,
                 repollObtained>>

\* The fetchStatus() of a poll settles, App.tsx:24-47: if (!active) return, and
\* in the catch block if (active) setError(...).
Dash_pollSettled(net) ==
  /\ pollCalls > 0
  /\ pollCalls' = pollCalls - 1
  /\ LET r == fetchStatus(net) IN
       IF ~active
       THEN UNCHANGED <<status, anchorRef, progress, localVolume, dashError>>
       ELSE IF r.state = "resolved"
       THEN PollApplied(Val(r.value))
       ELSE /\ dashError' = Some("Cannot reach backend")
            /\ UNCHANGED <<status, anchorRef, progress, localVolume>>
  /\ \E i \in SiteCalls("poll") :
       StatusCallSettled(i, active /\ fetchStatus(net).state = "resolved")
  /\ lastObtained' = IF net.ok THEN net.body ELSE lastObtained
  /\ pollWhilePending' =
       \/ pollWhilePending
       \/ /\ net.ok /\ DashChangePending
          /\ Val(net.body).volume \notin {Null, dashUserVolume}
  /\ UNCHANGED <<aroundDash, dashVolCtl, controlCalls, repollTimers, repollCalls,
                 repollObtained>>

\* ---------------------------------------------- dashboard: playback controls

\* handleControl as it would be with an optimistic update before the await:
\* setStatus(s => ({ ...s, is_playing: action !== "pause" })).
Dash_handleControl_optimistic(action) ==
  /\ active
  /\ action = "pause" => DashIsPlaying
  /\ action = "play" => ~DashIsPlaying
  /\ Len(controlCalls) + Len(repollTimers) + repollCalls < MaxInFlight
  /\ controlCalls' = Append(controlCalls, action)
  /\ status' = IF status = Null
               THEN Some([is_playing |-> action # "pause", position_ms |-> 0,
                          track |-> Null, volume |-> Null])
               ELSE Some([Val(status) EXCEPT !.is_playing = action # "pause"])
  /\ UNCHANGED <<aroundDash, localVolume, progress, dashError, anchorRef, dashVolCtl,
                 pollCalls, repollTimers, repollCalls, dashHistory>>

\* handleControl(action) up to its await, App.tsx:76-78; the centre button sends
\* pause while isPlaying and play otherwise, App.tsx:178.
Dash_handleControl(action) ==
  /\ active
  /\ action = "pause" => DashIsPlaying
  /\ action = "play" => ~DashIsPlaying
  /\ Len(controlCalls) + Len(repollTimers) + repollCalls < MaxInFlight
  /\ controlCalls' = Append(controlCalls, action)
  /\ UNCHANGED <<aroundDash, dashState, dashVolCtl, pollCalls, repollTimers,
                 repollCalls, dashHistory>>

\* controlPlayback(action) settles: resolved or caught, the handler goes on to
\* setTimeout(..., 500), App.tsx:78-90.
Dash_controlSettled(i, net) ==
  /\ i \in 1..Len(controlCalls)
  /\ controlPlayback(net).state \in {"resolved", "rejected"}
  /\ controlCalls' = RemoveAt(controlCalls, i)
  /\ repollTimers' = Append(repollTimers, REPOLL_DELAY)
  /\ UNCHANGED <<aroundDash, dashState, dashVolCtl, pollCalls, repollCalls, dashHistory>>

\* A re-poll timer fires: the callback calls fetchStatus(), App.tsx:83-85.
Dash_repollFire(i) ==
  /\ i \in 1..Len(repollTimers)
  /\ repollTimers[i] = 0
  /\ repollTimers' = RemoveAt(repollTimers, i)
  /\ repollCalls' = repollCalls + 1
  /\ statusCalls' = Append(statusCalls, StatusCall("repoll"))
  /\ UNCHANGED <<aroundDash, dashState, dashVolCtl, pollCalls, controlCalls,
                 pollWhilePending, lastObtained, repollObtained, wentBack>>

\* The fetchStatus() of a re-poll settles, App.tsx:85-89: setStatus(s) and nothing
\* else; the effect of App.tsx:67-74 runs on the new status.
Dash_repollSettled(net) ==
  /\ repollCalls > 0
  /\ repollCalls' = repollCalls - 1
  /\ LET r == fetchStatus(net) IN
       IF r.state = "resolved"
       THEN /\ status' = r.value
            /\ progress' = ProgressAfterPausedSync(r.value, anchorRef, progress)
       ELSE UNCHANGED <<status, progress>>
  /\ \E i \in SiteCalls("repoll") : StatusCallSettled(i, fetchStatus(net).state = "resolved")
  /\ lastObtained' = IF net.ok THEN net.body ELSE lastObtained
  /\ repollObtained' = (repollObtained \/ net.ok)
  /\ UNCHANGED <<aroundDash, localVolume, dashError, anchorRef, dashVolCtl, pollCalls,
                 controlCalls, repollTimers, pollWhilePending>>

\* The rest of the re-poll once await fetchStatus() has given it status s,
\* App.tsx:85-86.
Dash_repollResolved(s) ==
  /\ repollCalls > 0
  /\ repollCalls' = repollCalls - 1
  /\ status' = Some(s)
  /\ progress' = ProgressAfterPausedSync(Some(s), anchorRef, progress)
  /\ \E i \in SiteCalls("repoll") : StatusCallSettled(i, TRUE)
  /\ lastObtained' = Some(s)
  /\ repollObtained' = TRUE
  /\ UNCHANGED <<aroundDash, localVolume, dashError, anchorRef, dashVolCtl, pollCalls,
                 controlCalls, repollTimers, pollWhilePending>>

\* ------------------------------------------------- dashboard: volume slider

\* handleVolumeChange(e), App.tsx:93-102 (up to arming the timer).
Dash_handleVolumeChange(val) ==
  /\ active
  /\ Len(dashVolumeCalls) < MaxInFlight
  /\ localVolume' = val
  /\ volumeDragging' = TRUE
  /\ volumeTimeoutRef' = Timer(DASH_VOLUME_DEBOUNCE, val)
  /\ dashVolumeCalls' = [k \in 1..Len(dashVolumeCalls) |->
                           [dashVolumeCalls[k] EXCEPT !.latest = FALSE]]
  /\ dashUserVolume' = Some(val)
  /\ dashSentSinceChange' = 0
  /\ dashBurstLength' = IF volumeTimeoutRef.armed THEN Min(dashBurstLength + 1, MaxBurst)
                        ELSE 1
  /\ UNCHANGED <<aroundDash, status, progress, dashError, anchorRef, dashCalls,
                 dashHistory, dashLastRequested, failureEscaped>>

\* The debounce callback starts: await setVolume(val), App.tsx:98-99.
Dash_volumeTimeoutFire ==
  /\ Due(volumeTimeoutRef)
  /\ dashVolumeCalls' = Append(dashVolumeCalls,
                               [value |-> volumeTimeoutRef.value, latest |-> TRUE])
  /\ volumeTimeoutRef' = NoTimer
  /\ dashLastRequested' = Some(volumeTimeoutRef.value)
  /\ dashSentSinceChange' = dashSentSinceChange + 1
  /\ UNCHANGED <<aroundDash, dashBurstLength, dashState, volumeDragging, dashUserVolume, dashCalls,
                 dashHistory, failureEscaped>>

\* setVolume(val) settles, App.tsx:99-100: the callback has no try/catch, so
\* volumeDragging.current = false runs only when the promise resolved, and a
\* rejection leaves the async timer callback as an unhandled rejection.
Dash_setVolumeSettled(i, net) ==
  /\ i \in 1..Len(dashVolumeCalls)
  /\ dashVolumeCalls' = RemoveAt(dashVolumeCalls, i)
  /\ volumeDragging' = IF setVolume(net).state = "resolved" THEN FALSE ELSE volumeDragging
  /\ failureEscaped' = (failureEscaped \/ (~net.ok /\ setVolume(net).state = "rejected"))
  /\ UNCHANGED <<aroundDash, dashState, volumeTimeoutRef, dashUserVolume, dashCalls,
                 dashHistory, dashLastRequested, dashSentSinceChange, dashBurstLength>>

\* 100 ms pass in the dashboard; a due timer fires first.  Date.now() moves on,
\* and with it the time since anchorRef.current.startTime.
Dash_Tick ==
  /\ ~Due(volumeTimeoutRef)
  /\ \A k \in 1..Len(repollTimers) : repollTimers[k] > 0
  /\ \/ volumeTimeoutRef.armed
     \/ repollTimers # <<>>
     \/ anchorRef # Null /\ Val(anchorRef).elapsed < MaxElapsed
  /\ volumeTimeoutRef' = TickTimer(volumeTimeoutRef)
  /\ repollTimers' = [k \in 1..Len(repollTimers) |-> repollTimers[k] - 1]
  /\ anchorRef' = IF anchorRef = Null THEN Null
                  ELSE Some([Val(anchorRef) EXCEPT
                               !.elapsed = Min(Val(anchorRef).elapsed + 1, MaxElapsed)])
  /\ UNCHANGED <<aroundDash, status, localVolume, progress, dashError, volumeDragging,
                 dashVolumeCalls, dashUserVolume, dashVolHistory, pollCalls, controlCalls,
                 repollCalls, dashHistory>>

\* The 250 ms interval callback of the progress effect runs, App.tsx:55-64; the
\* interval exists while status?.is_playing.
Dash_progressTick ==
  /\ active
  /\ DashIsPlaying
  /\ progress' = ProgressAfterTick(anchorRef, progress)
  /\ UNCHANGED <<aroundDash, status, localVolume, dashError, anchorRef, dashVolCtl,
                 dashCalls, dashHistory>>

\* The effect of App.tsx:67-74 runs after a render with a new status.
Dash_pausedSync ==
  /\ active
  /\ progress' = ProgressAfterPausedSync(status, anchorRef, progress)
  /\ UNCHANGED <<aroundDash, status, localVolume, dashError, anchorRef, dashVolCtl,
                 dashCalls, dashHistory>>

\* App unmounts (the browser tab closes or navigates away): the cleanup of the
\* poll effect runs, active = false; clearInterval(id), App.tsx:51.  The buttons
\* and the slider are gone; timers of setTimeout and requests in flight are not
\* cancelled.
Dash_unmount ==
  /\ active
  /\ active' = FALSE
  /\ UNCHANGED <<outsideDash, dashState, dashVolCtl, dashCalls, dashHistory>>

\* ------------------------------------------------------- sidebar: data

\* Drill-ins opened in one run that the model follows.
MaxDrills == 3
\* The number of items the server holds in each paged list, and its page size.
ServerTotal == 3
PageSize == 2

\* An item of a paged list is its position in the server's list; a playlist
\* also has an owner (Playlist.owner_id, api.ts:42-48).
PlaylistAt(pos) == [pos |-> pos, owner_id |-> IF pos = 1 THEN "spotify" ELSE "me"]
\* The positions (offset, offset + PageSize] that exist on the server.
PagePositions(offset) ==
  [k \in 1..(Min(offset + PageSize, ServerTotal) - Min(offset, ServerTotal)) |-> offset + k]
\* TracksResponse / EpisodesResponse / PlaylistsResponse for a request at offset.
ItemsPage(offset) == [ok |-> TRUE, items |-> PagePositions(offset), total |-> ServerTotal]
PlaylistsPage(offset) ==
  [ok |-> TRUE,
   items |-> [k \in 1..Len(PagePositions(offset)) |-> PlaylistAt(PagePositions(offset)[k])],
   total |-> ServerTotal]
\* The body { ok: false, error } the backend sends when Spotify cannot be asked.
NotOkBody == [ok |-> FALSE, items |-> <<>>, total |-> 0]

\* What fetch of a page of tracks or episodes at offset can do.
ItemsFetches(offset) ==
  {NetworkFailure, HttpError, HttpOk(ItemsPage(offset)), HttpOk(NotOkBody)}
\* What fetch("/api/playlists?offset=...") can do.
PlaylistsFetches(offset) ==
  {NetworkFailure, HttpError, HttpOk(PlaylistsPage(offset)), HttpOk(NotOkBody)}
\* What fetch of /api/albums and of /api/artists can do (the lists are not paged
\* by the sidebar).
ListFetches == {NetworkFailure, HttpError, HttpOk(ItemsPage(0))}

\* fetchPlaylists(offset), api.ts:76-79, given what fetch did.
fetchPlaylists(net) ==
  IF net.kind = "failed" THEN Rejected("fetch failed") ELSE jsonOrThrow(net)
\* fetchSavedAlbums(), api.ts:167-170, given what fetch did.
fetchSavedAlbums(net) ==
  IF net.kind = "failed" THEN Rejected("fetch failed") ELSE jsonOrThrow(net)
\* fetchFollowedArtists(), api.ts:162-165, given what fetch did.
fetchFollowedArtists(net) ==
  IF net.kind = "failed" THEN Rejected("fetch failed") ELSE jsonOrThrow(net)
\* fetchLikedTracks(offset), api.ts:152-155, given what fetch did.
fetchLikedTracks(net) ==
  IF net.kind = "failed" THEN Rejected("fetch failed") ELSE jsonOrThrow(net)
\* fetchSavedEpisodes(offset), api.ts:157-160, given what fetch did.
fetchSavedEpisodes(net) ==
  IF net.kind = "failed" THEN Rejected("fetch failed") ELSE jsonOrThrow(net)

\* A drill-in context: the view and the id it was opened for (no id for Liked
\* Songs, Your Episodes).
Context(v, id) == [view |-> v, id |-> id]

\* splitPlaylists(items), Sidebar.tsx:63-71.
IsMade(p) == p.owner_id = "spotify"
IsUser(p) == p.owner_id # "spotify"
splitPlaylists(items) ==
  [made |-> SelectSeq(items, IsMade), user |-> SelectSeq(items, IsUser)]

\* --------------------------------------------------- sidebar: what is offered

\* The first-page and load-more requests that have not settled yet.
DrillCallsPending == Len(drillCalls) + Len(moreCalls)

\* allPlaylistsLoaded, Sidebar.tsx:264.
allPlaylistsLoaded == playlistsOffset >= playlistsTotal
\* The library entries are rendered, Sidebar.tsx:304-311.
LibraryShown == sidebarOpen /\ view = "library" /\ ~loading
\* The "Load more playlists" button is rendered, Sidebar.tsx:382-387.
LoadMorePlaylistsOffered == LibraryShown /\ ~allPlaylistsLoaded
\* The "Load more" button of a track list is rendered, Sidebar.tsx:419 and 435.
LoadMoreTracksOffered ==
  /\ sidebarOpen /\ view \in {"playlist", "liked", "album"}
  /\ ~loadingTracks /\ Len(tracks) < tracksTotal
\* The "Load more" button of the episode list is rendered, Sidebar.tsx:442 and 458.
LoadMoreEpisodesOffered ==
  /\ sidebarOpen /\ view = "episodes"
  /\ ~loadingTracks /\ Len(episodes) < episodesTotal

\* ------------------------------------------------ sidebar: opening, library

\* The menu button, App.tsx:115: open becomes true and the effect of
\* Sidebar.tsx:74-77 starts loading the library.
Side_open ==
  /\ ~sidebarOpen
  /\ libraryLoads < MaxInFlight
  /\ sidebarOpen' = TRUE
  /\ loading' = TRUE
  /\ libraryLoads' = libraryLoads + 1
  /\ UNCHANGED <<outsideSide, view, sideLibrary, sideDrill, drillCalls, moreCalls,
                 closeTimers, sideHistory>>

\* Promise.all([fetchPlaylists(), fetchSavedAlbums(), fetchFollowedArtists()])
\* settles, Sidebar.tsx:77-90.
Side_libraryLoadSettled(pl, al, ar) ==
  /\ libraryLoads > 0
  /\ libraryLoads' = libraryLoads - 1
  /\ LET rp == fetchPlaylists(pl)
         ra == fetchSavedAlbums(al)
         rr == fetchFollowedArtists(ar)
         all == rp.state = "resolved" /\ ra.state = "resolved" /\ rr.state = "resolved"
     IN  IF all
         THEN /\ IF Val(rp.value).ok
                 THEN /\ madeForYou' = splitPlaylists(Val(rp.value).items).made
                      /\ playlists' = splitPlaylists(Val(rp.value).items).user
                      /\ playlistsTotal' = Val(rp.value).total
                      /\ playlistsOffset' = Len(Val(rp.value).items)
                 ELSE UNCHANGED <<madeForYou, playlists, playlistsTotal, playlistsOffset>>
              /\ albums' = IF Val(ra.value).ok THEN Val(ra.value).items ELSE albums
              /\ artists' = IF Val(rr.value).ok THEN Val(rr.value).items ELSE artists
         ELSE UNCHANGED sideLibrary
  /\ loading' = FALSE
  /\ playlistsServed' = IF pl.ok /\ al.ok /\ ar.ok /\ Val(pl.body).ok
                        THEN Len(Val(pl.body).items) ELSE playlistsServed
  /\ UNCHANGED <<outsideSide, sidebarOpen, view, sideDrill, drillCalls, moreCalls,
                 closeTimers, tracksServed, episodesServed, staleDiscarded>>

\* ------------------------------------------------------ sidebar: drill-ins

\* openLiked() up to its await, Sidebar.tsx:151-161.
Side_openLiked ==
  /\ LibraryShown
  /\ drillReqId < MaxDrills
  /\ DrillCallsPending < MaxInFlight
  /\ drillReqId' = drillReqId + 1
  /\ view' = "liked"
  /\ activeContextId' = Null
  /\ tracks' = <<>>
  /\ tracksOffset' = 0
  /\ loadingTracks' = TRUE
  /\ drillCalls' = Append(drillCalls, [kind |-> "liked", reqId |-> drillReqId + 1])
  /\ tracksServed' = 0
  /\ UNCHANGED <<outsideSide, sidebarOpen, loading, sideLibrary, tracksTotal, sideEpisodes,
                 artistAlbums, libraryLoads, moreCalls, closeTimers, playlistsServed, staleDiscarded,
                 episodesServed>>

\* fetchLikedTracks(0) of openLiked settles, Sidebar.tsx:161-167.
Side_likedSettled(i, net) ==
  /\ i \in 1..Len(drillCalls)
  /\ drillCalls[i].kind = "liked"
  /\ drillCalls' = RemoveAt(drillCalls, i)
  /\ LET r == fetchLikedTracks(net)
         current == drillCalls[i].reqId = drillReqId
     IN  /\ IF r.state = "resolved" /\ current /\ Val(r.value).ok
            THEN /\ tracks' = Val(r.value).items
                 /\ tracksTotal' = Val(r.value).total
                 /\ tracksOffset' = Len(Val(r.value).items)
            ELSE UNCHANGED <<tracks, tracksTotal, tracksOffset>>
         /\ loadingTracks' = IF current THEN FALSE ELSE loadingTracks
         /\ tracksServed' = IF current /\ net.ok /\ Val(net.body).ok
                            THEN Len(Val(net.body).items) ELSE tracksServed
         /\ staleDiscarded' = (staleDiscarded \/ ~current)
  /\ UNCHANGED <<outsideSide, sidebarOpen, view, loading, sideLibrary, sideEpisodes,
                 artistAlbums, drillReqId, activeContextId, libraryLoads, moreCalls,
                 closeTimers, playlistsServed, episodesServed>>

\* openEpisodes() up to its await, Sidebar.tsx:170-179.
Side_openEpisodes ==
  /\ LibraryShown
  /\ drillReqId < MaxDrills
  /\ DrillCallsPending < MaxInFlight
  /\ drillReqId' = drillReqId + 1
  /\ view' = "episodes"
  /\ episodes' = <<>>
  /\ episodesOffset' = 0
  /\ loadingTracks' = TRUE
  /\ drillCalls' = Append(drillCalls, [kind |-> "episodes", reqId |-> drillReqId + 1])
  /\ episodesServed' = 0
  /\ UNCHANGED <<outsideSide, sidebarOpen, loading, sideLibrary, sideTracks, episodesTotal,
                 artistAlbums, activeContextId, libraryLoads, moreCalls, closeTimers,
                 playlistsServed, staleDiscarded, tracksServed>>

\* fetchSavedEpisodes(0) of openEpisodes settles, Sidebar.tsx:179-185.
Side_episodesSettled(i, net) ==
  /\ i \in 1..Len(drillCalls)
  /\ drillCalls[i].kind = "episodes"
  /\ drillCalls' = RemoveAt(drillCalls, i)
  /\ LET r == fetchSavedEpisodes(net)
         current == drillCalls[i].reqId = drillReqId
     IN  /\ IF r.state = "resolved" /\ current /\ Val(r.value).ok
            THEN /\ episodes' = Val(r.value).items
                 /\ episodesTotal' = Val(r.value).total
                 /\ episodesOffset' = Len(Val(r.value).items)
            ELSE UNCHANGED sideEpisodes
         /\ loadingTracks' = IF current THEN FALSE ELSE loadingTracks
         /\ episodesServed' = IF current /\ net.ok /\ Val(net.body).ok
                              THEN Len(Val(net.body).items) ELSE episodesServed
         /\ staleDiscarded' = (staleDiscarded \/ ~current)
  /\ UNCHANGED <<outsideSide, sidebarOpen, view, loading, sideLibrary, sideTracks,
                 artistAlbums, drillReqId, activeContextId, libraryLoads, moreCalls,
                 closeTimers, playlistsServed, tracksServed>>

\* --------------------------------------------------- sidebar: load more

\* loadMorePlaylists() up to its await, Sidebar.tsx:95-98: the request carries
\* the playlistsOffset of the render the callback was made in.
Side_loadMorePlaylists ==
  /\ LoadMorePlaylistsOffered
  /\ DrillCallsPending < MaxInFlight
  /\ loadingTracks' = TRUE
  /\ moreCalls' = Append(moreCalls, [kind |-> "playlists", offset |-> playlistsOffset])
  /\ UNCHANGED <<outsideSide, sidebarOpen, view, loading, sideLibrary, sideTracks,
                 sideEpisodes, artistAlbums, drillReqId, activeContextId, libraryLoads,
                 drillCalls, closeTimers, sideHistory>>

\* loadMoreTracks() up to its await, Sidebar.tsx:207-213.
Side_loadMoreTracks ==
  /\ LoadMoreTracksOffered
  /\ DrillCallsPending < MaxInFlight
  /\ loadingTracks' = TRUE
  /\ moreCalls' = Append(moreCalls, [kind |-> "tracks", offset |-> tracksOffset,
                                    ctx |-> Context(view, activeContextId)])
  /\ UNCHANGED <<outsideSide, sidebarOpen, view, loading, sideLibrary, sideTracks,
                 sideEpisodes, artistAlbums, drillReqId, activeContextId, libraryLoads,
                 drillCalls, closeTimers, sideHistory>>

\* loadMoreEpisodes() up to its await, Sidebar.tsx:221-224.
Side_loadMoreEpisodes ==
  /\ LoadMoreEpisodesOffered
  /\ DrillCallsPending < MaxInFlight
  /\ loadingTracks' = TRUE
  /\ moreCalls' = Append(moreCalls, [kind |-> "episodes", offset |-> episodesOffset])
  /\ UNCHANGED <<outsideSide, sidebarOpen, view, loading, sideLibrary, sideTracks,
                 sideEpisodes, artistAlbums, drillReqId, activeContextId, libraryLoads,
                 drillCalls, closeTimers, sideHistory>>

\* The request of a load-more handler settles, Sidebar.tsx:98-108, 211-218 and
\* 224-229: the page is appended to the list as it is now.
Side_loadMoreSettled(i, net) ==
  /\ i \in 1..Len(moreCalls)
  /\ moreCalls' = RemoveAt(moreCalls, i)
  /\ LET r == jsonOrThrow(net)
         kind == moreCalls[i].kind
         got == r.state = "resolved" /\ Val(r.value).ok
     IN  /\ IF got /\ kind = "playlists"
            THEN /\ madeForYou' = madeForYou \o splitPlaylists(Val(r.value).items).made
                 /\ playlists' = playlists \o splitPlaylists(Val(r.value).items).user
                 /\ playlistsOffset' = playlistsOffset + Len(Val(r.value).items)
            ELSE UNCHANGED <<madeForYou, playlists, playlistsOffset>>
         /\ IF got /\ kind = "tracks"
            THEN /\ tracks' = tracks \o Val(r.value).items
                 /\ tracksOffset' = tracksOffset + Len(Val(r.value).items)
            ELSE UNCHANGED <<tracks, tracksOffset>>
         /\ IF got /\ kind = "episodes"
            THEN /\ episodes' = episodes \o Val(r.value).items
                 /\ episodesOffset' = episodesOffset + Len(Val(r.value).items)
            ELSE UNCHANGED <<episodes, episodesOffset>>
         /\ playlistsServed' = playlistsServed +
              (IF kind = "playlists" /\ net.ok /\ Val(net.body).ok
               THEN Len(Val(net.body).items) ELSE 0)
         /\ tracksServed' = tracksServed +
              (IF kind = "tracks" /\ net.ok /\ Val(net.body).ok
               THEN Len(Val(net.body).items) ELSE 0)
         /\ episodesServed' = episodesServed +
              (IF kind = "episodes" /\ net.ok /\ Val(net.body).ok
               THEN Len(Val(net.body).items) ELSE 0)
  /\ loadingTracks' = FALSE
  /\ UNCHANGED <<outsideSide, sidebarOpen, view, loading, playlistsTotal, albums, artists,
                 tracksTotal, episodesTotal, artistAlbums, drillReqId, activeContextId,
                 libraryLoads, drillCalls, closeTimers, staleDiscarded>>

\* --------------------- sidebar: the handlers, for any outcome of the request

\* The handlers of the sidebar continue after their await with the outcome of
\* the promise awaited: a rejection, a body with ok = false, or the page asked
\* for.  The actions below take that outcome as their input.

\* The context a first-page request was made for.
CallContext(call) ==
  Context(call.kind, IF call.kind \in {"playlist", "album", "artist"}
                     THEN Some(call.id) ELSE Null)
\* The track at position pos of context c (PlaylistTrack, api.ts:50-58).
TrackOf(c, pos) == [of |-> c, pos |-> pos]
\* TracksResponse for the tracks of context c at offset.
TracksBody(c, offset) ==
  [ok |-> TRUE,
   items |-> [k \in 1..Len(PagePositions(offset)) |-> TrackOf(c, PagePositions(offset)[k])],
   total |-> ServerTotal]
\* AlbumsResponse / ArtistsResponse: the one album, the one artist of the samples.
OneItemBody == [ok |-> TRUE, items |-> <<1>>, total |-> 1]

\* The outcomes of Promise.all([fetchPlaylists(), fetchSavedAlbums(),
\* fetchFollowedArtists()]).
LibraryAnswers ==
  {Rejected("error")}
    \cup {Resolved(<<PlaylistsPage(0), OneItemBody, OneItemBody>>),
          Resolved(<<NotOkBody, NotOkBody, NotOkBody>>)}
\* The outcomes of the first-page request of a drill-in.
DrillAnswers(call) ==
  {Rejected("error"), Resolved(NotOkBody)}
    \cup (IF call.kind \in {"playlist", "album", "liked"}
          THEN {Resolved(TracksBody(CallContext(call), 0))}
          ELSE IF call.kind = "episodes" THEN {Resolved(ItemsPage(0))}
          ELSE {Resolved(OneItemBody)})
\* The outcomes of a load-more request.
MoreAnswers(call) ==
  {Rejected("error"), Resolved(NotOkBody)}
    \cup (IF call.kind = "tracks" THEN {Resolved(TracksBody(call.ctx, call.offset))}
          ELSE IF call.kind = "episodes" THEN {Resolved(ItemsPage(call.offset))}
          ELSE {Resolved(PlaylistsPage(call.offset))})

\* The .then / .catch / .finally of the library effect, Sidebar.tsx:77-90.
Side_libraryLoadAnswered(r) ==
  /\ libraryLoads > 0
  /\ libraryLoads' = libraryLoads - 1
  /\ IF r.state = "resolved"
     THEN LET pl == Val(r.value)[1]
              al == Val(r.value)[2]
              ar == Val(r.value)[3]
          IN  /\ IF pl.ok
                 THEN /\ madeForYou' = splitPlaylists(pl.items).made
                      /\ playlists' = splitPlaylists(pl.items).user
                      /\ playlistsTotal' = pl.total
                      /\ playlistsOffset' = Len(pl.items)
                 ELSE UNCHANGED <<madeForYou, playlists, playlistsTotal, playlistsOffset>>
              /\ albums' = IF al.ok THEN al.items ELSE albums
              /\ artists' = IF ar.ok THEN ar.items ELSE artists
     ELSE UNCHANGED sideLibrary
  /\ loading' = FALSE
  /\ UNCHANGED <<outsideSide, sidebarOpen, view, sideDrill, drillCalls, moreCalls,
                 closeTimers, sideHistory>>

\* The playlists, albums and artists whose rows are rendered.
PlaylistRows ==
  IF LibraryShown
  THEN {madeForYou[k] : k \in 1..Len(madeForYou)} \cup {playlists[k] : k \in 1..Len(playlists)}
  ELSE {}
AlbumRows ==
  IF LibraryShown THEN {albums[k] : k \in 1..Len(albums)}
  ELSE IF sidebarOpen /\ view = "artist" THEN {artistAlbums[k] : k \in 1..Len(artistAlbums)}
  ELSE {}
ArtistRows == IF LibraryShown THEN {artists[k] : k \in 1..Len(artists)} ELSE {}

\* openPlaylist(pl) up to its await, Sidebar.tsx:113-122.
Side_openPlaylist(pl) ==
  /\ pl \in PlaylistRows
  /\ drillReqId < MaxDrills
  /\ DrillCallsPending < MaxInFlight
  /\ drillReqId' = drillReqId + 1
  /\ view' = "playlist"
  /\ activeContextId' = Some(pl.pos)
  /\ tracks' = <<>>
  /\ tracksOffset' = 0
  /\ loadingTracks' = TRUE
  /\ drillCalls' = Append(drillCalls,
                          [kind |-> "playlist", reqId |-> drillReqId + 1, id |-> pl.pos])
  /\ UNCHANGED <<outsideSide, sidebarOpen, loading, sideLibrary, tracksTotal, sideEpisodes,
                 artistAlbums, libraryLoads, moreCalls, closeTimers, sideHistory>>

\* openAlbum(al) up to its await, Sidebar.tsx:132-141.
Side_openAlbum(al) ==
  /\ al \in AlbumRows
  /\ drillReqId < MaxDrills
  /\ DrillCallsPending < MaxInFlight
  /\ drillReqId' = drillReqId + 1
  /\ view' = "album"
  /\ activeContextId' = Some(al)
  /\ tracks' = <<>>
  /\ tracksOffset' = 0
  /\ loadingTracks' = TRUE
  /\ drillCalls' = Append(drillCalls,
                          [kind |-> "album", reqId |-> drillReqId + 1, id |-> al])
  /\ UNCHANGED <<outsideSide, sidebarOpen, loading, sideLibrary, tracksTotal, sideEpisodes,
                 artistAlbums, libraryLoads, moreCalls, closeTimers, sideHistory>>

\* openArtist(artist) up to its await, Sidebar.tsx:189-195.
Side_openArtist(a) ==
  /\ a \in ArtistRows
  /\ drillReqId < MaxDrills
  /\ DrillCallsPending < MaxInFlight
  /\ drillReqId' = drillReqId + 1
  /\ view' = "artist"
  /\ artistAlbums' = <<>>
  /\ loadingTracks' = TRUE
  /\ drillCalls' = Append(drillCalls,
                          [kind |-> "artist", reqId |-> drillReqId + 1, id |-> a])
  /\ UNCHANGED <<outsideSide, sidebarOpen, loading, sideLibrary, sideTracks, sideEpisodes,
                 activeContextId, libraryLoads, moreCalls, closeTimers, sideHistory>>

\* A drill-in opener as it would be if it applied every response, stale or not.
DrillApplied_noReqIdCheck(call, r) ==
  LET got == r.state = "resolved" /\ Val(r.value).ok
  IN  /\ IF got /\ call.kind \in {"playlist", "album", "liked"}
         THEN /\ tracks' = Val(r.value).items
              /\ tracksTotal' = Val(r.value).total
              /\ tracksOffset' = Len(Val(r.value).items)
         ELSE UNCHANGED sideTracks
      /\ IF got /\ call.kind = "episodes"
         THEN /\ episodes' = Val(r.value).items
              /\ episodesTotal' = Val(r.value).total
              /\ episodesOffset' = Len(Val(r.value).items)
         ELSE UNCHANGED sideEpisodes
      /\ artistAlbums' = IF got /\ call.kind = "artist"
                         THEN Val(r.value).items ELSE artistAlbums
      /\ loadingTracks' = FALSE

\* What a drill-in opener does with the outcome r of its first-page request,
\* Sidebar.tsx:123-129 (and 142-148, 161-167, 179-185, 196-202).
DrillApplied(call, r) ==
  LET current == call.reqId = drillReqId
      got == r.state = "resolved" /\ current /\ Val(r.value).ok
  IN  /\ IF got /\ call.kind \in {"playlist", "album", "liked"}
         THEN /\ tracks' = Val(r.value).items
              /\ tracksTotal' = Val(r.value).total
              /\ tracksOffset' = Len(Val(r.value).items)
         ELSE UNCHANGED sideTracks
      /\ IF got /\ call.kind = "episodes"
         THEN /\ episodes' = Val(r.value).items
              /\ episodesTotal' = Val(r.value).total
              /\ episodesOffset' = Len(Val(r.value).items)
         ELSE UNCHANGED sideEpisodes
      /\ artistAlbums' = IF got /\ call.kind = "artist"
                         THEN Val(r.value).items ELSE artistAlbums
      /\ loadingTracks' = IF current THEN FALSE ELSE loadingTracks

\* The first-page request of a drill-in settles with outcome r.
Side_drillAnswered(i, r) ==
  /\ i \in 1..Len(drillCalls)
  /\ r \in DrillAnswers(drillCalls[i])
  /\ drillCalls' = RemoveAt(drillCalls, i)
  /\ DrillApplied(drillCalls[i], r)
  /\ staleDiscarded' = (staleDiscarded \/ drillCalls[i].reqId # drillReqId)
  /\ UNCHANGED <<outsideSide, sidebarOpen, view, loading, sideLibrary, drillReqId,
                 activeContextId, libraryLoads, moreCalls, closeTimers, playlistsServed,
                 tracksServed, episodesServed>>

\* The request of a load-more handler settles with outcome r, Sidebar.tsx:98-108,
\* 211-218 and 224-229.
Side_loadMoreAnswered(i, r) ==
  /\ i \in 1..Len(moreCalls)
  /\ r \in MoreAnswers(moreCalls[i])
  /\ moreCalls' = RemoveAt(moreCalls, i)
  /\ LET kind == moreCalls[i].kind
         got == r.state = "resolved" /\ Val(r.value).ok
     IN  /\ IF got /\ kind = "playlists"
            THEN /\ madeForYou' = madeForYou \o splitPlaylists(Val(r.value).items).made
                 /\ playlists' = playlists \o splitPlaylists(Val(r.value).items).user
                 /\ playlistsOffset' = playlistsOffset + Len(Val(r.value).items)
            ELSE UNCHANGED <<madeForYou, playlists, playlistsOffset>>
         /\ IF got /\ kind = "tracks"
            THEN /\ tracks' = tracks \o Val(r.value).items
                 /\ tracksOffset' = tracksOffset + Len(Val(r.value).items)
            ELSE UNCHANGED <<tracks, tracksOffset>>
         /\ IF got /\ kind = "episodes"
            THEN /\ episodes' = episodes \o Val(r.value).items
                 /\ episodesOffset' = episodesOffset + Len(Val(r.value).items)
            ELSE UNCHANGED <<episodes, episodesOffset>>
  /\ loadingTracks' = FALSE
  /\ UNCHANGED <<outsideSide, sidebarOpen, view, loading, playlistsTotal, albums, artists,
                 tracksTotal, episodesTotal, artistAlbums, drillReqId, activeContextId,
                 libraryLoads, drillCalls, closeTimers, sideHistory>>

\* ----------------------------------------------------- sidebar: navigation

\* goBack(), Sidebar.tsx:251-256; the button is rendered in a drill-in, line 290.
Side_goBack ==
  /\ sidebarOpen /\ view # "library"
  /\ view' = "library"
  /\ tracks' = <<>>
  /\ episodes' = <<>>
  /\ artistAlbums' = <<>>
  /\ tracksServed' = 0
  /\ episodesServed' = 0
  /\ UNCHANGED <<outsideSide, sidebarOpen, loading, sideLibrary, tracksTotal, tracksOffset,
                 loadingTracks, episodesTotal, episodesOffset, drillReqId, activeContextId,
                 sideCalls, playlistsServed, staleDiscarded>>

\* handleClose(), Sidebar.tsx:258-261: onClose() and a 300 ms timer.
Side_handleClose ==
  /\ sidebarOpen
  /\ Len(closeTimers) < MaxInFlight
  /\ sidebarOpen' = FALSE
  /\ closeTimers' = Append(closeTimers, CLOSE_DELAY)
  /\ UNCHANGED <<outsideSide, view, loading, sideLibrary, sideDrill, libraryLoads,
                 drillCalls, moreCalls, sideHistory>>

\* The timer of handleClose fires, Sidebar.tsx:260.
Side_closeTimerFire(i) ==
  /\ i \in 1..Len(closeTimers)
  /\ closeTimers[i] = 0
  /\ closeTimers' = RemoveAt(closeTimers, i)
  /\ view' = "library"
  /\ tracks' = <<>>
  /\ episodes' = <<>>
  /\ tracksServed' = 0
  /\ episodesServed' = 0
  /\ UNCHANGED <<outsideSide, sidebarOpen, loading, sideLibrary, tracksTotal, tracksOffset,
                 loadingTracks, episodesTotal, episodesOffset, artistAlbums, drillReqId,
                 activeContextId, libraryLoads, drillCalls, moreCalls, playlistsServed, staleDiscarded>>

\* 100 ms pass in the sidebar; a due timer fires first.
Side_Tick ==
  /\ closeTimers # <<>>
  /\ \A k \in 1..Len(closeTimers) : closeTimers[k] > 0
  /\ closeTimers' = [k \in 1..Len(closeTimers) |-> closeTimers[k] - 1]
  /\ UNCHANGED <<outsideSide, sidebarOpen, view, loading, sideLibrary, sideDrill,
                 libraryLoads, drillCalls, moreCalls, sideHistory>>

\* ------------------------------------------------- search overlay: data

\* What the user can have in the input: sequences of characters.
Inputs == {<<>>, <<" ">>, <<"a">>, <<"a", " ">>, <<"b">>}

\* value.trim(): the value without its leading and trailing white space.
RECURSIVE trimStart(_)
trimStart(s) == IF s # <<>> /\ Head(s) = " " THEN trimStart(Tail(s)) ELSE s
RECURSIVE trimEnd(_)
trimEnd(s) ==
  IF s # <<>> /\ s[Len(s)] = " " THEN trimEnd(SubSeq(s, 1, Len(s) - 1)) ELSE s
trim(s) == trimEnd(trimStart(s))

\* A Spotify URI, and the URI openPlaylist builds: `spotify:playlist:${pl.id}`.
Uri(kind, id) == [kind |-> kind, id |-> id]
\* Album, Artist and Playlist of a search result (api.ts:42-48, 106-110, 135-142).
SearchAlbum(id) == [id |-> id, uri |-> Uri("album", id)]
SearchArtist(id) == [id |-> id]
SearchPlaylist(id) == [id |-> id]

\* SearchResponse for the query q (api.ts:184-191): what the server found for q.
SearchBody(q) ==
  [ok |-> TRUE, q |-> q, albums |-> <<SearchAlbum(1)>>, artists |-> <<SearchArtist(1)>>,
   playlists |-> <<SearchPlaylist(1)>>]
SearchNotOk == [ok |-> FALSE, q |-> <<>>, albums |-> <<>>, artists |-> <<>>,
                playlists |-> <<>>]
\* The outcomes of searchSpotify(q).
SearchAnswers(call) ==
  {Rejected("error"), Resolved(SearchNotOk), Resolved(SearchBody(call.q))}
\* The outcomes of fetchAlbumTracks(id, 0), fetchPlaylistTracks(id, 0): a
\* TracksResponse with a track of that album or playlist; and of
\* fetchArtistAlbums(id): an AlbumsResponse with an album of the artist.
SearchDrillAnswers(call) ==
  {Rejected("error"), Resolved(NotOkBody)}
    \cup (IF call.kind = "artist"
          THEN {Resolved([ok |-> TRUE, items |-> <<SearchAlbum(2)>>, total |-> 1])}
          ELSE {Resolved([ok |-> TRUE, items |-> <<TrackOf(Uri(call.kind, call.id), 1)>>,
                          total |-> 1])})

\* The search results are rendered (SearchOverlay.tsx:149, 215-221).
ResultsShown ==
  searchOpen /\ drillView = Null /\ ~searchLoading /\ trim(query) # <<>> /\ results # Null
\* The first items of a list, as results.albums.slice(0, 4).
FirstItems(s, n) == {s[k] : k \in 1..Min(Len(s), n)}

SearchCallsPending == Len(searchCalls) + Len(searchDrillCalls)

\* ---------------------------------------------- search overlay: handlers

\* App opens the overlay (the open prop becomes true).
Search_open ==
  /\ ~searchOpen
  /\ searchOpen' = TRUE
  /\ UNCHANGED <<outsideSearch, query, results, searchLoading, debounceRef, searchDrill,
                 searchCalls, searchDrillCalls, searchCloseTimers>>

\* handleInput(value), SearchOverlay.tsx:44-64, up to the timer it arms.  The
\* input is rendered while no drill-in is shown, and onChange comes with a value
\* other than the one shown.
Search_handleInput(value) ==
  /\ searchOpen /\ drillView = Null
  /\ value # query
  /\ query' = value
  /\ drillView' = Null
  /\ IF trim(value) = <<>>
     THEN /\ results' = Null
          /\ searchLoading' = FALSE
          /\ debounceRef' = NoTimer
     ELSE /\ searchLoading' = TRUE
          /\ debounceRef' = Timer(SEARCH_DEBOUNCE, trim(value))
          /\ UNCHANGED results
  /\ UNCHANGED <<outsideSearch, searchOpen, drillTracks, drillAlbums, drillContextUri,
                 drillLoading, searchCalls, searchDrillCalls, searchCloseTimers>>

\* The debounce callback starts: await searchSpotify(value.trim()),
\* SearchOverlay.tsx:54-56.
Search_debounceFire ==
  /\ Due(debounceRef)
  /\ SearchCallsPending < MaxInFlight
  /\ searchCalls' = Append(searchCalls, [q |-> debounceRef.value])
  /\ debounceRef' = NoTimer
  /\ UNCHANGED <<outsideSearch, searchOpen, query, results, searchLoading, searchDrill,
                 searchDrillCalls, searchCloseTimers>>

\* The debounce callback after its await, SearchOverlay.tsx:56-62, for the
\* outcome r of searchSpotify.
Search_searchAnswered(i, r) ==
  /\ i \in 1..Len(searchCalls)
  /\ r \in SearchAnswers(searchCalls[i])
  /\ searchCalls' = RemoveAt(searchCalls, i)
  /\ results' = IF r.state = "resolved" /\ Val(r.value).ok THEN r.value ELSE Null
  /\ searchLoading' = FALSE
  /\ UNCHANGED <<outsideSearch, searchOpen, query, debounceRef, searchDrill,
                 searchDrillCalls, searchCloseTimers>>

\* openAlbum(al) up to its await, SearchOverlay.tsx:74-81.
Search_openAlbum(al) ==
  /\ ResultsShown
  /\ al \in FirstItems(Val(results).albums, 4)
  /\ SearchCallsPending < MaxInFlight
  /\ drillView' = Some("album")
  /\ drillContextUri' = Some(al.uri)
  /\ drillTracks' = <<>>
  /\ drillLoading' = TRUE
  /\ searchDrillCalls' = Append(searchDrillCalls, [kind |-> "album", id |-> al.id])
  /\ UNCHANGED <<outsideSearch, searchOpen, query, results, searchLoading, debounceRef,
                 drillAlbums, searchCalls, searchCloseTimers>>

\* openArtist(a) up to its await, SearchOverlay.tsx:89-96.
Search_openArtist(a) ==
  /\ ResultsShown
  /\ a \in FirstItems(Val(results).artists, 4)
  /\ SearchCallsPending < MaxInFlight
  /\ drillView' = Some("artist")
  /\ drillAlbums' = <<>>
  /\ drillTracks' = <<>>
  /\ drillLoading' = TRUE
  /\ searchDrillCalls' = Append(searchDrillCalls, [kind |-> "artist", id |-> a.id])
  /\ UNCHANGED <<outsideSearch, searchOpen, query, results, searchLoading, debounceRef,
                 drillContextUri, searchCalls, searchCloseTimers>>

\* openPlaylist(pl) up to its await, SearchOverlay.tsx:104-111.
Search_openPlaylist(pl) ==
  /\ ResultsShown
  /\ pl \in FirstItems(Val(results).playlists, 4)
  /\ SearchCallsPending < MaxInFlight
  /\ drillView' = Some("playlist")
  /\ drillContextUri' = Some(Uri("playlist", pl.id))
  /\ drillTracks' = <<>>
  /\ drillLoading' = TRUE
  /\ searchDrillCalls' = Append(searchDrillCalls, [kind |-> "playlist", id |-> pl.id])
  /\ UNCHANGED <<outsideSearch, searchOpen, query, results, searchLoading, debounceRef,
                 drillAlbums, searchCalls, searchCloseTimers>>

\* openDrillAlbum(al) up to its await, SearchOverlay.tsx:119-127: an album row
\* of the artist drill-in.
Search_openDrillAlbum(al) ==
  /\ searchOpen /\ drillView = Some("artist") /\ ~drillLoading
  /\ al \in FirstItems(drillAlbums, Len(drillAlbums))
  /\ SearchCallsPending < MaxInFlight
  /\ drillView' = Some("album")
  /\ drillContextUri' = Some(al.uri)
  /\ drillAlbums' = <<>>
  /\ drillTracks' = <<>>
  /\ drillLoading' = TRUE
  /\ searchDrillCalls' = Append(searchDrillCalls, [kind |-> "album", id |-> al.id])
  /\ UNCHANGED <<outsideSearch, searchOpen, query, results, searchLoading, debounceRef,
                 searchCalls, searchCloseTimers>>

\* A drill-in handler after its await, SearchOverlay.tsx:81-86, 96-101, 111-116
\* and 127-132, for the outcome r of its request.
Search_drillAnswered(i, r) ==
  /\ i \in 1..Len(searchDrillCalls)
  /\ r \in SearchDrillAnswers(searchDrillCalls[i])
  /\ searchDrillCalls' = RemoveAt(searchDrillCalls, i)
  /\ LET got == r.state = "resolved" /\ Val(r.value).ok
         kind == searchDrillCalls[i].kind
     IN  /\ drillTracks' = IF got /\ kind # "artist" THEN Val(r.value).items ELSE drillTracks
         /\ drillAlbums' = IF got /\ kind = "artist" THEN Val(r.value).items ELSE drillAlbums
  /\ drillLoading' = FALSE
  /\ UNCHANGED <<outsideSearch, searchOpen, query, results, searchLoading, debounceRef,
                 drillView, drillContextUri, searchCalls, searchCloseTimers>>

\* backToResults(), SearchOverlay.tsx:143-147: the Back button of a drill-in.
Search_backToResults ==
  /\ searchOpen /\ drillView # Null
  /\ drillView' = Null
  /\ drillTracks' = <<>>
  /\ drillAlbums' = <<>>
  /\ UNCHANGED <<outsideSearch, searchOpen, query, results, searchLoading, debounceRef,
                 drillContextUri, drillLoading, searchCalls, searchDrillCalls,
                 searchCloseTimers>>

\* handleClose(), SearchOverlay.tsx:66-71: onClose() and a 300 ms timer.
Search_handleClose ==
  /\ searchOpen
  /\ searchCloseTimers = <<>>
  /\ searchOpen' = FALSE
  /\ searchCloseTimers' = Append(searchCloseTimers, SEARCH_CLOSE_DELAY)
  /\ UNCHANGED <<outsideSearch, query, results, searchLoading, debounceRef, searchDrill,
                 searchCalls, searchDrillCalls>>

\* The timer of handleClose fires, SearchOverlay.tsx:69.
Search_closeTimerFire(i) ==
  /\ i \in 1..Len(searchCloseTimers)
  /\ searchCloseTimers[i] = 0
  /\ searchCloseTimers' = RemoveAt(searchCloseTimers, i)
  /\ query' = <<>>
  /\ results' = Null
  /\ drillView' = Null
  /\ drillTracks' = <<>>
  /\ drillAlbums' = <<>>
  /\ UNCHANGED <<outsideSearch, searchOpen, searchLoading, debounceRef, drillContextUri,
                 drillLoading, searchCalls, searchDrillCalls>>

\* 100 ms pass in the overlay; a due timer fires first.
Search_Tick ==
  /\ ~Due(debounceRef)
  /\ \A k \in 1..Len(searchCloseTimers) : searchCloseTimers[k] > 0
  /\ debounceRef.armed \/ searchCloseTimers # <<>>
  /\ debounceRef' = TickTimer(debounceRef)
  /\ searchCloseTimers' = [k \in 1..Len(searchCloseTimers) |-> searchCloseTimers[k] - 1]
  /\ UNCHANGED <<outsideSearch, searchOpen, query, results, searchLoading, searchDrill,
                 searchCalls, searchDrillCalls>>

\* ------------------------------------------------- api.ts: every helper

\* The helpers of api.ts that the sidebar's library does not use: each awaits
\* fetch and returns jsonOrThrow(res).
\* fetchPlaylistTracks(id, offset), api.ts:81-84, given what fetch did.
fetchPlaylistTracks(net) ==
  IF net.kind = "failed" THEN Rejected("fetch failed") ELSE jsonOrThrow(net)
\* playInContext(contextUri, offsetUri), api.ts:86-93, given what fetch did.
playInContext(net) ==
  IF net.kind = "failed" THEN Rejected("fetch failed") ELSE jsonOrThrow(net)
\* playUris(uris, position), api.ts:95-102, given what fetch did.
playUris(net) ==
  IF net.kind = "failed" THEN Rejected("fetch failed") ELSE jsonOrThrow(net)
\* fetchAlbumTracks(id, offset), api.ts:172-175, given what fetch did.
fetchAlbumTracks(net) ==
  IF net.kind = "failed" THEN Rejected("fetch failed") ELSE jsonOrThrow(net)
\* fetchArtistAlbums(id, offset), api.ts:177-180, given what fetch did.
fetchArtistAlbums(net) ==
  IF net.kind = "failed" THEN Rejected("fetch failed") ELSE jsonOrThrow(net)
\* searchSpotify(q, offset), api.ts:193-196, given what fetch did.
searchSpotify(net) ==
  IF net.kind = "failed" THEN Rejected("fetch failed") ELSE jsonOrThrow(net)

\* The exported helpers of api.ts.
ApiHelpers ==
  {"fetchStatus", "controlPlayback", "setVolume", "fetchPlaylists", "fetchPlaylistTracks",
   "playInContext", "playUris", "fetchLikedTracks", "fetchSavedEpisodes",
   "fetchFollowedArtists", "fetchSavedAlbums", "fetchAlbumTracks", "fetchArtistAlbums",
   "searchSpotify"}
\* The promise the helper h returns, given what fetch did.
ApiHelper(h, net) ==
  CASE h = "fetchStatus" -> fetchStatus(net)
    [] h = "controlPlayback" -> controlPlayback(net)
    [] h = "setVolume" -> setVolume(net)
    [] h = "fetchPlaylists" -> fetchPlaylists(net)
    [] h = "fetchPlaylistTracks" -> fetchPlaylistTracks(net)
    [] h = "playInContext" -> playInContext(net)
    [] h = "playUris" -> playUris(net)
    [] h = "fetchLikedTracks" -> fetchLikedTracks(net)
    [] h = "fetchSavedEpisodes" -> fetchSavedEpisodes(net)
    [] h = "fetchFollowedArtists" -> fetchFollowedArtists(net)
    [] h = "fetchSavedAlbums" -> fetchSavedAlbums(net)
    [] h = "fetchAlbumTracks" -> fetchAlbumTracks(net)
    [] h = "fetchArtistAlbums" -> fetchArtistAlbums(net)
    [] h = "searchSpotify" -> searchSpotify(net)
\* What fetch can do for a helper: fail, or answer with a status other than 2xx,
\* or with a 2xx status and a JSON body.
ApiFetches ==
  {NetworkFailure, HttpError, HttpOk(NotOkBody), HttpOk(PlaylistsPage(0)),
   HttpOk(PlaylistsPage(PageSize))}

\* A helper is called and fetch does net.
Api_call(h, net) ==
  /\ apiCall = Null \/ apiPromise # Null
  /\ apiCall' = Some([helper |-> h, net |-> net])
  /\ apiPromise' = Null
  /\ UNCHANGED outsideApi

\* The promise the helper returned settles.
Api_settled ==
  /\ apiCall # Null /\ apiPromise = Null
  /\ apiPromise' = Some(ApiHelper(Val(apiCall).helper, Val(apiCall).net))
  /\ UNCHANGED <<outsideApi, apiCall>>

\* ------------------------------------------------------------------- Init

\* The panel after its first render and mount effects: get_status and
\* get_auth_status have been called (part_001:139-159).
InitPanel ==
  /\ volume = INITIAL_VOLUME
  /\ volumeChangeSourceRef = "remote"
  /\ volumeDebounceRef = NoTimer
  /\ lastEvent = Null
  /\ trackMeta = Null
  /\ isPlaying = FALSE
  /\ running = FALSE
  /\ panelError = Null
  /\ toggling = FALSE
  /\ binaryFound = TRUE
  /\ restartNeeded = FALSE
  /\ settings = INITIAL_BITRATE
  /\ setVolumeCalls = <<>>
  /\ quietTimers = {}
  /\ getStatusCall = TRUE
  /\ toggleCall = "none"
  /\ restartCalls = <<>>
  /\ settingCalls = <<>>
  /\ userVolume = Null
  /\ quietLeft = 0
  /\ lastPlayEvt = Null
  /\ baseline = FALSE
  /\ scenario = 0
  /\ lastRequested = Null
  /\ sentSinceChange = 0
  /\ burstLength = 0
  /\ panelMounted = TRUE
  /\ authenticated = FALSE
  /\ needsReauth = FALSE
  /\ oauthLoading = FALSE
  /\ qrCodeUrl = Null
  /\ devices = <<>>
  /\ activeDeviceIdRef = ""
  /\ authStatusCall = TRUE
  /\ getDevicesCalls = <<>>
  /\ oauthStartCalls = 0
  /\ logoutCalls = 0
  /\ transferCalls = <<>>
  /\ transferRefreshTimers = <<>>
  /\ playbackCalls = <<>>
  /\ oauthPending = FALSE

\* The dashboard after its first render and mount effects: poll() has been called
\* once (App.tsx:49).
InitDash ==
  /\ status = Null
  /\ localVolume = DASH_INITIAL_VOLUME
  /\ progress = Frac(0, 1)
  /\ dashError = Null
  /\ anchorRef = Null
  /\ volumeTimeoutRef = NoTimer
  /\ volumeDragging = FALSE
  /\ pollCalls = 1
  /\ controlCalls = <<>>
  /\ repollTimers = <<>>
  /\ repollCalls = 0
  /\ dashVolumeCalls = <<>>
  /\ dashUserVolume = Null
  /\ pollWhilePending = FALSE
  /\ lastObtained = Null
  /\ repollObtained = FALSE
  /\ statusCalls = <<StatusCall("poll")>>
  /\ wentBack = FALSE
  /\ dashLastRequested = Null
  /\ dashSentSinceChange = 0
  /\ dashBurstLength = 0
  /\ failureEscaped = FALSE
  /\ active = TRUE

\* The sidebar after construction: closed, showing the library view.
InitSide ==
  /\ sidebarOpen = FALSE
  /\ view = "library"
  /\ loading = FALSE
  /\ madeForYou = <<>>
  /\ playlists = <<>>
  /\ playlistsTotal = 0
  /\ playlistsOffset = 0
  /\ albums = <<>>
  /\ artists = <<>>
  /\ tracks = <<>>
  /\ tracksTotal = 0
  /\ tracksOffset = 0
  /\ loadingTracks = FALSE
  /\ episodes = <<>>
  /\ episodesTotal = 0
  /\ episodesOffset = 0
  /\ artistAlbums = <<>>
  /\ drillReqId = 0
  /\ activeContextId = Null
  /\ libraryLoads = 0
  /\ drillCalls = <<>>
  /\ moreCalls = <<>>
  /\ closeTimers = <<>>
  /\ playlistsServed = 0
  /\ staleDiscarded = FALSE
  /\ tracksServed = 0
  /\ episodesServed = 0

\* The search overlay after construction: closed, nothing typed.
InitSearch ==
  /\ searchOpen = FALSE
  /\ query = <<>>
  /\ results = Null
  /\ searchLoading = FALSE
  /\ debounceRef = NoTimer
  /\ drillView = Null
  /\ drillTracks = <<>>
  /\ drillAlbums = <<>>
  /\ drillContextUri = Null
  /\ drillLoading = FALSE
  /\ searchCalls = <<>>
  /\ searchDrillCalls = <<>>
  /\ searchCloseTimers = <<>>

\* No helper of api.ts has been called on its own.
InitApi ==
  /\ apiCall = Null
  /\ apiPromise = Null

Init == InitPanel /\ InitDash /\ InitSide /\ InitSearch /\ InitApi

\* The dashboard showing any status, with any anchor a poll can have set.
Anchors ==
  [positionMs : Positions, elapsed : {0}, durationMs : TrackDurations]
InitProgress ==
  /\ InitPanel
  /\ InitSide
  /\ InitSearch
  /\ InitApi
  /\ status \in {Null} \cup {Some(s) : s \in StatusResponses}
  /\ anchorRef \in {Null} \cup {Some(a) : a \in Anchors}
  /\ localVolume = DASH_INITIAL_VOLUME
  /\ progress = Frac(0, 1)
  /\ dashError = Null
  /\ volumeTimeoutRef = NoTimer
  /\ volumeDragging = FALSE
  /\ pollCalls = 0
  /\ controlCalls = <<>>
  /\ repollTimers = <<>>
  /\ repollCalls = 0
  /\ dashVolumeCalls = <<>>
  /\ dashUserVolume = Null
  /\ pollWhilePending = FALSE
  /\ lastObtained = Null
  /\ repollObtained = FALSE
  /\ statusCalls = <<>>
  /\ wentBack = FALSE
  /\ dashLastRequested = Null
  /\ dashSentSinceChange = 0
  /\ dashBurstLength = 0
  /\ failureEscaped = FALSE
  /\ active = TRUE

\* ------------------------------------------- the panel's volume slider alone

\* The slider is rendered once the user is authenticated (part_001:424, 448-459);
\* only volume_set events are delivered here.
NextPanelVol ==
  \/ \E v \in Vols : Panel_handleVolumeChange(v)
  \/ Panel_volumeDebounceFire
  \/ \E i \in 1..MaxInFlight : Panel_setVolumeResolved(i)
  \/ \E i \in 1..MaxInFlight : Panel_setVolumeRejected(i)
  \/ Panel_quietTimerFire
  \/ Panel_Tick
  \/ \E e \in VolumeSetEvents : onEvent(e)

SpecPanelVol == Init /\ [][NextPanelVol]_vars

\* ------------------------------- the panel's listeners, toggle and restart

NextPanel ==
  \/ \E e \in AgentEvents : onEvent(e)
  \/ \E p \in StatusPayloads : onStatus(p)
  \/ \E m \in TrackMetas : onTrackMeta(m)
  \/ \E s \in GetStatusResults : Panel_getStatusResolved(s)
  \/ Panel_getStatusRejected
  \/ Panel_handleToggle
  \/ \E ok \in BOOLEAN : Panel_toggleStartReturned(ok)
  \/ Panel_toggleStopReturned
  \/ Panel_toggleRejected
  \/ \E b \in BitrateOptions : Panel_handleSettingChange(b)
  \/ \E i \in 1..MaxPanelCalls, ok \in BOOLEAN : Panel_setSettingReturned(i, ok)
  \/ Panel_handleRestart
  \/ \E i \in 1..MaxPanelCalls : Panel_restartStopReturned(i)
  \/ \E i \in 1..MaxPanelCalls, ok \in BOOLEAN : Panel_restartStartReturned(i, ok)
  \/ \E i \in 1..MaxPanelCalls : Panel_restartRejected(i)

SpecPanel == Init /\ [][NextPanel]_vars

\* ------------------------------------------------- the panel's Spotify login

\* The account section of the panel, while the playback part is left alone.
NextPanelAuth ==
  \/ \E a \in AuthStatusResults : Panel_getAuthStatusResolved(a)
  \/ Panel_getAuthStatusRejected
  \/ Panel_handleOAuthStart
  \/ \E r \in StartOAuthResults : Panel_oauthStartReturned(r)
  \/ Panel_oauthStartRejected
  \/ Panel_handleOAuthCancel
  \/ \E c \in OAuthCompletePayloads : onOAuthComplete(c)
  \/ Backend_oauthEnds
  \/ Panel_handleLogout
  \/ Panel_logoutReturned
  \/ Panel_logoutRejected
  \/ Panel_unmount

SpecPanelAuth == Init /\ [][NextPanelAuth]_vars

\* ------------------------------------------------------ the panel's devices

\* The device list, the targeted device and the commands that carry it.
NextPanelDevices ==
  \/ \E a \in AuthStatusResults : Panel_getAuthStatusResolved(a)
  \/ Panel_deviceRefreshTick
  \/ onDeviceChanged
  \/ Panel_handleRefreshDevices
  \/ \E i \in 1..MaxInFlight, r \in GetDevicesResults : Panel_getDevicesReturned(i, r)
  \/ \E i \in 1..MaxInFlight : Panel_getDevicesRejected(i)
  \/ \E d \in DeviceIds : Panel_handleTransferPlayback(d)
  \/ \E i \in 1..MaxPanelCalls, ok \in BOOLEAN : Panel_transferReturned(i, ok)
  \/ \E i \in 1..MaxPanelCalls : Panel_transferRejected(i)
  \/ \E i \in 1..MaxPanelCalls : Panel_transferRefreshFire(i)
  \/ Panel_Tick
  \/ \E a \in PanelControlActions : Panel_handlePlaybackControl(a)
  \/ \E i \in 1..MaxPanelCalls : Panel_playbackControlSettled(i)

SpecPanelDevices == Init /\ [][NextPanelDevices]_vars

\* ----------------------------------------------------- the polling loops

\* The dashboard's status poll and the panel's device refresh, with the events
\* that end them: the views unmount, the user logs out.
NextPolling ==
  \/ Dash_poll
  \/ \E net \in StatusFetches : Dash_pollSettled(net)
  \/ Dash_unmount
  \/ \E a \in AuthStatusResults : Panel_getAuthStatusResolved(a)
  \/ Panel_deviceRefreshTick
  \/ \E i \in 1..MaxInFlight, r \in GetDevicesResults : Panel_getDevicesReturned(i, r)
  \/ Panel_handleLogout
  \/ Panel_logoutReturned
  \/ Panel_unmount

SpecPolling == Init /\ [][NextPolling]_vars

\* ------------------------------------------- the dashboard's volume slider

\* The slider and the status poll.
NextDashVol ==
  \/ Dash_poll
  \/ \E net \in StatusFetches : Dash_pollSettled(net)
  \/ \E v \in DashVols : Dash_handleVolumeChange(v)
  \/ Dash_volumeTimeoutFire
  \/ \E i \in 1..MaxInFlight, net \in CommandFetches : Dash_setVolumeSettled(i, net)
  \/ Dash_Tick
  \/ Dash_unmount

SpecDashVol == Init /\ [][NextDashVol]_vars

\* --------------------------------------------------------- the two sliders

\* The volume sliders of both front ends.  The panel and the dashboard are
\* separate programs that share no state: a behaviour follows the slider of one
\* of them while the other front end stays as it was constructed.
NextSliders ==
  \/ InitDash /\ NextPanelVol
  \/ InitPanel /\ NextDashVol

SpecSliders == Init /\ [][NextSliders]_vars

\* ---------------------------------------- the dashboard's playback controls

\* The control buttons, the re-poll and the status poll.  The progress interval
\* of App.tsx:55-64 exists only while status?.is_playing.
NextDashCtl ==
  \/ Dash_poll
  \/ \E net \in StatusFetches : Dash_pollSettled(net)
  \/ \E a \in ControlActions : Dash_handleControl(a)
  \/ \E i \in 1..MaxInFlight, net \in CommandFetches : Dash_controlSettled(i, net)
  \/ \E i \in 1..MaxInFlight : Dash_repollFire(i)
  \/ \E net \in StatusFetches : Dash_repollSettled(net)
  \/ Dash_Tick
  \/ Dash_unmount

SpecDashCtl == Init /\ [][NextDashCtl]_vars

\* ------------------------------------------ the dashboard's status requests

\* The statuses reported while nothing is loaded: no track, no volume.
TracklessStatuses == {s \in StatusResponses : s.track = Null /\ s.volume = Null}

\* The status poll, the control buttons and the re-poll, for every outcome of
\* the status requests.
NextStatusOrder ==
  \/ Dash_poll
  \/ \E s \in TracklessStatuses : Dash_pollResolved(s)
  \/ \E net \in {NetworkFailure, HttpError} : Dash_pollSettled(net)
  \/ \E a \in ControlActions : Dash_handleControl(a)
  \/ \E i \in 1..MaxInFlight, net \in CommandFetches : Dash_controlSettled(i, net)
  \/ \E i \in 1..MaxInFlight : Dash_repollFire(i)
  \/ \E s \in TracklessStatuses : Dash_repollResolved(s)
  \/ \E net \in {NetworkFailure, HttpError} : Dash_repollSettled(net)
  \/ Dash_Tick
  \/ Dash_unmount

SpecStatusOrder == Init /\ [][NextStatusOrder]_vars

\* ------------------------------------------ the dashboard's position display

\* The progress computations applied to any status and anchor, as time passes.
NextProgress ==
  \/ Dash_Tick
  \/ Dash_progressTick
  \/ Dash_pausedSync

SpecProgress == InitProgress /\ [][NextProgress]_vars

\* ------------------------------------------- the dashboard's position anchor

\* What poll does to the anchor with each status it is given, from any status
\* and anchor, as time passes.
NextAnchor ==
  \/ Dash_poll
  \/ \E s \in StatusResponses : Dash_pollResolved(s)
  \/ Dash_Tick
  \/ Dash_unmount

SpecAnchor == InitProgress /\ [][NextAnchor]_vars

\* -------------------------------------------------------------- the sidebar

\* Opening and closing the drawer, the library load, the Liked Songs and Your
\* Episodes drill-ins and going back.  The load-more handlers are not steps of
\* this specification: their buttons are rendered only once a list's total is
\* above the number of items received, and no total is ever received
\* (SidebarNoLoadMore).
NextSidebar ==
  \/ Side_open
  \/ \E pl \in PlaylistsFetches(0), al \in ListFetches, ar \in ListFetches :
       Side_libraryLoadSettled(pl, al, ar)
  \/ Side_openLiked
  \/ \E i \in 1..MaxInFlight, net \in ItemsFetches(0) : Side_likedSettled(i, net)
  \/ Side_openEpisodes
  \/ \E i \in 1..MaxInFlight, net \in ItemsFetches(0) : Side_episodesSettled(i, net)
  \/ Side_goBack
  \/ Side_handleClose
  \/ \E i \in 1..MaxInFlight : Side_closeTimerFire(i)
  \/ Side_Tick

SpecSidebar == Init /\ [][NextSidebar]_vars

\* ------------------------------- the sidebar, for any outcome of a request

\* The open sidebar with every drill-in and going back, each first-page request
\* settling with any outcome its handler can be given.
NextDrill ==
  \/ Side_open
  \/ \E r \in LibraryAnswers : Side_libraryLoadAnswered(r)
  \/ \E pl \in PlaylistRows : Side_openPlaylist(pl)
  \/ \E al \in AlbumRows : Side_openAlbum(al)
  \/ \E a \in ArtistRows : Side_openArtist(a)
  \/ Side_openLiked
  \/ Side_openEpisodes
  \/ \E i \in 1..Len(drillCalls) : \E r \in DrillAnswers(drillCalls[i]) :
       Side_drillAnswered(i, r)
  \/ Side_goBack

SpecDrill == Init /\ [][NextDrill]_vars

\* No load-more button is ever rendered, so Side_loadMorePlaylists,
\* Side_loadMoreTracks and Side_loadMoreEpisodes are never enabled and no
\* load-more request is ever in flight.
SidebarNoLoadMore ==
  /\ ~LoadMorePlaylistsOffered /\ ~LoadMoreTracksOffered /\ ~LoadMoreEpisodesOffered
  /\ moreCalls = <<>>

\* ------------------------------------------------------------------ claims

\* The items at positions 1..n of a server's list.
PositionsUpTo(n) == [k \in 1..n |-> k]

\* ------------------------------------------ the sidebar's track lists, by page

\* The track drill-ins of the sidebar with their Load more button, for every
\* outcome of the requests.
NextTrackPages ==
  \/ Side_open
  \/ \E r \in LibraryAnswers : Side_libraryLoadAnswered(r)
  \/ \E pl \in PlaylistRows : Side_openPlaylist(pl)
  \/ \E al \in AlbumRows : Side_openAlbum(al)
  \/ Side_openLiked
  \/ \E i \in 1..Len(drillCalls) : \E r \in DrillAnswers(drillCalls[i]) : Side_drillAnswered(i, r)
  \/ Side_loadMoreTracks
  \/ \E i \in 1..Len(moreCalls) : \E r \in MoreAnswers(moreCalls[i]) : Side_loadMoreAnswered(i, r)
  \/ Side_goBack

SpecTrackPages == Init /\ [][NextTrackPages]_vars

\* ------------------------------------------------------- the helpers of api.ts

\* Every helper of api.ts, called with every outcome of fetch.
NextApi ==
  \/ \E h \in ApiHelpers, net \in ApiFetches : Api_call(h, net)
  \/ Api_settled

SpecApi == Init /\ [][NextApi]_vars

\* ----------------------------------------------------------- the search overlay

\* The search overlay: typing, the debounced search, the drill-ins, Back, closing
\* and reopening, for every outcome of the requests.
NextSearch ==
  \/ Search_open
  \/ \E value \in Inputs : Search_handleInput(value)
  \/ Search_debounceFire
  \/ \E i \in 1..Len(searchCalls) : \E r \in SearchAnswers(searchCalls[i]) :
       Search_searchAnswered(i, r)
  \/ \E al \in {SearchAlbum(1)} : Search_openAlbum(al)
  \/ \E a \in {SearchArtist(1)} : Search_openArtist(a)
  \/ \E pl \in {SearchPlaylist(1)} : Search_openPlaylist(pl)
  \/ \E al \in {SearchAlbum(2)} : Search_openDrillAlbum(al)
  \/ \E i \in 1..Len(searchDrillCalls) : \E r \in SearchDrillAnswers(searchDrillCalls[i]) :
       Search_drillAnswered(i, r)
  \/ Search_backToResults
  \/ Search_handleClose
  \/ \E i \in 1..Len(searchCloseTimers) : Search_closeTimerFire(i)
  \/ Search_Tick

SpecSearch == Init /\ [][NextSearch]_vars

\* C1: in the panel, while a user volume change is pending (debounce timer armed,
\* set_volume call in flight, or less than 500 ms since the call for the latest
\* slider value returned) a remote volume_set event never changes the displayed
\* volume: the slider keeps showing the user's latest value.
C1_RemoteSuppressedWhilePending ==
  UserChangePending => Some(volume) = userVolume

C3_SuppressionEnds ==
  (~volumeDebounceRef.armed /\ setVolumeCalls = <<>> /\ quietTimers = {})
    => volumeChangeSourceRef = "remote"

C5_PositionWithinTrack ==
  /\ progress.den > 0
  /\ 0 <= progress.num /\ progress.num <= progress.den
  /\ durationMs > 0 => (0 <= elapsedShown /\ elapsedShown <= durationMs)

\* C5 witness: the anchor's position plus the time since is beyond the duration;
\* the bar is full and the elapsed time shown is the duration.
C5_Witness ==
  /\ DashIsPlaying /\ durationMs > 0 /\ anchorRef # Null
  /\ Val(anchorRef).positionMs + Val(anchorRef).elapsed > Val(anchorRef).durationMs
  /\ Val(anchorRef).positionMs < Val(anchorRef).durationMs
  /\ progress = Frac(1, 1)
  /\ elapsedShown = durationMs

C7_EventsAppliedInOrder ==
  isPlaying = IF lastPlayEvt = Null THEN baseline
              ELSE Val(lastPlayEvt) \in {"playing", "started"}

\* C7 witness: changed(track A), playing, paused have been received in this order
\* and the panel shows not playing, with track A in lastEvent.
C7_Witness ==
  /\ scenario = 3
  /\ ~isPlaying
  /\ lastEvent = Some(LibrespotEvent("paused", Some("A"), Null))

\* C8 as claimed: a librespot_status notification leaves lastEvent, the track
\* metadata and isPlaying unchanged; lastEvent is replaced only by a
\* librespot_event and cleared only by a stop or restart requested from the panel.
C8_LastEventOnlyByEventOrStop ==
  [][/\ (\E p \in StatusPayloads : onStatus(p)) => UNCHANGED evtState
     /\ lastEvent' # lastEvent =>
          \/ \E e \in AgentEvents : onEvent(e)
          \/ /\ lastEvent' = Null
             /\ \/ Panel_toggleStopReturned
                \/ \E i \in 1..MaxPanelCalls : Panel_restartStopReturned(i)]_vars

\* C8 amended: as above, and lastEvent is also set by the result of the panel's
\* initial get_status call, to the last_event the backend reports.
C8_LastEventPreserved ==
  [][/\ UNCHANGED evtState \/ ~(\E p \in StatusPayloads : onStatus(p))
     /\ lastEvent' # lastEvent =>
          \/ \E e \in AgentEvents : onEvent(e)
          \/ \E s \in GetStatusResults : Panel_getStatusResolved(s) /\ lastEvent' = s.last_event
          \/ /\ lastEvent' = Null
             /\ \/ Panel_toggleStopReturned
                \/ \E i \in 1..MaxPanelCalls : Panel_restartStopReturned(i)]_vars

\* C8 witness: the agent crashed (librespot_status with running=false and an
\* error) while the panel was showing an event, a track and playing: all three
\* are still there.
C8_Witness ==
  /\ panelError = Some("librespot crashed")
  /\ ~running
  /\ lastEvent = Some(LibrespotEvent("playing", Some("A"), Null))
  /\ trackMeta = Some("A")
  /\ isPlaying

\* C9 as claimed: issuing play or pause changes the play/pause state shown at once.
C9_OptimisticUpdate ==
  [][(\E a \in {"play", "pause"} : Dash_handleControl(a))
       => DashIsPlaying' # DashIsPlaying]_vars

\* C9 amended: issuing a control command changes nothing that is shown; when the
\* request has settled, whatever its outcome, still nothing shown changes and one
\* re-poll is scheduled 500 ms later.
C9_NoOptimisticUpdate ==
  [][/\ (\E a \in ControlActions : Dash_handleControl(a)) => UNCHANGED dashState
     /\ (\E i \in 1..MaxInFlight, net \in CommandFetches : Dash_controlSettled(i, net))
          => /\ UNCHANGED dashState
             /\ repollTimers' = Append(repollTimers, REPOLL_DELAY)]_vars

\* C9 witness: a control command is in flight, another has settled and its
\* re-poll is scheduled; the dashboard still shows what it showed before.
C9_Witness ==
  /\ controlCalls # <<>>
  /\ repollTimers # <<>>
  /\ status = Null /\ ~DashIsPlaying

\* C10: every control command is followed by one re-poll 500 ms after it settled,
\* and the status that re-poll obtains replaces the status shown.
C10_RepollReplacesStatus ==
  [][/\ (\E i \in 1..MaxInFlight, net \in CommandFetches : Dash_controlSettled(i, net))
          => repollTimers' = Append(repollTimers, REPOLL_DELAY)
     /\ \A b \in StatusResponses : Dash_repollSettled(HttpOk(b)) => status' = Some(b)]_vars

\* The get_devices calls in flight that the 30 s interval made.
IntervalCalls(calls) == Cardinality({k \in 1..Len(calls) : calls[k] = "interval"})

\* C11: once the dashboard has unmounted, no further periodic /api/status
\* request is issued and no step, the settling of a status response that was in
\* flight at the unmount included, changes status, anchor, volume or error; and
\* while the panel is unmounted or the user is not authenticated, the panel's
\* interval issues no get_devices request.
C11_PollingStopsOnUnmount ==
  [][/\ ~active => /\ pollCalls' <= pollCalls
                   /\ UNCHANGED <<status, anchorRef, localVolume, dashError>>
     /\ ~(panelMounted /\ authenticated) =>
          IntervalCalls(getDevicesCalls') <= IntervalCalls(getDevicesCalls)]_vars

\* The status response in flight when the dashboard unmounted has settled and
\* left no trace; the panel had fetched devices and has unmounted.
C11_Witness ==
  /\ ~active /\ pollCalls = 0 /\ dashError = Null /\ status = Null
  /\ ~panelMounted /\ devices # <<>> /\ getDevicesCalls = <<>>

\* C12: a step of a setting change (handleSettingChange called, set_setting
\* returned) issues no start or stop call and leaves the agent's running state
\* alone; restartNeeded is raised only by a setting that was saved by a handler
\* that saw the agent running; a stop-and-start is begun only by Restart Now,
\* which is offered while restartNeeded, and the flag is cleared only when the
\* start call of such a restart has returned, which always clears it.
C12_SettingChangeNeverRestarts ==
  [][/\ settingCalls' # settingCalls =>
          UNCHANGED <<toggleCall, restartCalls, running, toggling, evtState>>
     /\ (~restartNeeded /\ restartNeeded') =>
          \E i \in 1..Len(settingCalls) :
            /\ settingCalls[i].running
            /\ settingCalls' = RemoveAt(settingCalls, i)
            /\ settings' = settingCalls[i].value
     /\ Len(restartCalls') > Len(restartCalls) => restartNeeded
     /\ (restartNeeded /\ ~restartNeeded') =>
          \E i \in 1..Len(restartCalls) :
            restartCalls[i] = "start" /\ restartCalls' = RemoveAt(restartCalls, i)
     /\ \A i \in 1..Len(restartCalls), ok \in BOOLEAN :
          Panel_restartStartReturned(i, ok) => ~restartNeeded']_vars

\* The bitrate was saved while the agent runs: the flag is up, the agent still
\* runs and no start or stop call has been made.
C12_Witness ==
  /\ restartNeeded /\ running /\ settings \in BitrateOptions
  /\ settingCalls = <<>> /\ restartCalls = <<>> /\ toggleCall = "none"

\* C13: whenever a get_devices call returns ok with a device list, the empty
\* list included, the list displayed afterwards is exactly that list.
C13_DeviceListReplaced ==
  [][\A i \in 1..Len(getDevicesCalls), r \in GetDevicesResults :
       (Panel_getDevicesReturned(i, r) /\ r.ok /\ r.devices # Null)
         => devices' = Val(r.devices)]_vars

\* C14: when the user cancels a pending login in the panel, the backend's
\* login attempt ends with it: after handleOAuthCancel no verifier is pending
\* and no callback listener runs.
C14_CancelEndsAttempt ==
  [][Panel_handleOAuthCancel => ~oauthPending']_vars

\* C15: every oauth_complete notification, in whatever state it finds the
\* panel, leaves oauthLoading false, no QR code, needsReauth false and
\* authenticated equal to the notified value.
C15_OAuthCompleteEndsLogin ==
  [][\A c \in OAuthCompletePayloads :
       onOAuthComplete(c) =>
         /\ ~oauthLoading' /\ qrCodeUrl' = Null /\ ~needsReauth'
         /\ authenticated' = c.authenticated]_vars

\* The login was completed before get_auth_status answered: authenticated can
\* only have come from the notification.
C15_Witness ==
  /\ authStatusCall /\ authenticated
  /\ ~oauthLoading /\ qrCodeUrl = Null /\ ~needsReauth /\ ~oauthPending

\* C16: when start_oauth returns without ok or without a landing_url, or
\* throws, the QR code shown stays what it was and oauthLoading is false; and
\* a QR code appears only as the landing_url of a start_oauth result with ok.
C16_FailedStartShowsNoQr ==
  [][/\ \A r \in StartOAuthResults :
          (Panel_oauthStartReturned(r) /\ ~(r.ok /\ r.landing_url # Null))
            => (qrCodeUrl' = qrCodeUrl /\ ~oauthLoading')
     /\ Panel_oauthStartRejected => (qrCodeUrl' = qrCodeUrl /\ ~oauthLoading')
     /\ (qrCodeUrl' # qrCodeUrl /\ qrCodeUrl' # Null) =>
          \E r \in StartOAuthResults :
            r.ok /\ r.landing_url = qrCodeUrl' /\ Panel_oauthStartReturned(r)]_vars

\* A second start failed while the first one's QR code is shown: the code
\* stays and oauthLoading is false.
C16_Witness ==
  qrCodeUrl # Null /\ ~oauthLoading /\ oauthStartCalls = 0 /\ oauthPending

\* C17: no failed request (non-2xx response or network error) of a dashboard
\* operation leaves its handler as an unhandled rejection.
C17_FailuresIsolated == ~failureEscaped

C19_BurstsCoalesced ==
  /\ sentSinceChange <= 1
  /\ volumeDebounceRef.armed => sentSinceChange = 0
  /\ (~volumeDebounceRef.armed /\ userVolume # Null) =>
       (sentSinceChange = 1 /\ lastRequested = userVolume)
  /\ dashSentSinceChange <= 1
  /\ volumeTimeoutRef.armed => dashSentSinceChange = 0
  /\ (~volumeTimeoutRef.armed /\ dashUserVolume # Null) =>
       (dashSentSinceChange = 1 /\ dashLastRequested = dashUserVolume)

\* A burst of at least two changes of the panel's slider has ended with one
\* request, which carries the value the slider shows.
C19_Witness ==
  /\ burstLength >= 2 /\ ~volumeDebounceRef.armed
  /\ sentSinceChange = 1 /\ lastRequested = Some(volume)

\* C20: when a device list is applied the targeted device id becomes the id of
\* the device marked active, or of the first device if none is; when a transfer
\* to device D returns ok it becomes D; a transfer that fails or throws leaves
\* it alone; nothing else changes it; and every playback command is sent with
\* the id targeted at that moment.
C20_TargetedDevice ==
  [][/\ \A i \in 1..Len(getDevicesCalls), r \in GetDevicesResults :
          (Panel_getDevicesReturned(i, r) /\ DevicesApplied(r)) =>
            LET devs == Val(r.devices) IN
              IF \E k \in 1..Len(devs) : devs[k].is_active
              THEN \E k \in 1..Len(devs) :
                     devs[k].is_active /\ devs[k].id = activeDeviceIdRef'
              ELSE activeDeviceIdRef' = devs[1].id
     /\ \A i \in 1..Len(transferCalls) :
          /\ Panel_transferReturned(i, TRUE) => activeDeviceIdRef' = transferCalls[i]
          /\ (Panel_transferReturned(i, FALSE) \/ Panel_transferRejected(i))
               => activeDeviceIdRef' = activeDeviceIdRef
     /\ activeDeviceIdRef' # activeDeviceIdRef =>
          \/ \E i \in 1..Len(getDevicesCalls), r \in GetDevicesResults :
               Panel_getDevicesReturned(i, r) /\ DevicesApplied(r)
          \/ \E i \in 1..Len(transferCalls) : Panel_transferReturned(i, TRUE)
     /\ Len(playbackCalls') > Len(playbackCalls) =>
          playbackCalls'[Len(playbackCalls')].device_id = activeDeviceIdRef]_vars

\* The list with d2 active was applied, then playback was transferred to d1: d1
\* is targeted before the list is fetched again, and a command carries it.
C20_Witness ==
  /\ devices = <<SpotifyDevice("d1", FALSE), SpotifyDevice("d2", TRUE)>>
  /\ activeDeviceIdRef = "d1" /\ transferRefreshTimers # <<>>
  /\ playbackCalls # <<>> /\ playbackCalls[1].device_id = "d1"

\* C21: at most one start or stop request of the agent is in flight at a time,
\* counting the call of handleToggle and the calls of handleRestart.
C21_OneStartStopInFlight ==
  (IF toggleCall = "none" THEN 0 ELSE 1) + Len(restartCalls) <= 1

\* C22: drillReqId counts the drill-ins opened, so a first-page request is the
\* latest one exactly when its reqId equals drillReqId.  A response to a request
\* that is not the latest changes none of the displayed lists and leaves the
\* loading indicator alone; a response to the latest request ends the loading,
\* and its page, when it has one, is what the list of its kind then shows.
C22_StaleDrillDiscarded ==
  [][\A i \in 1..Len(drillCalls) : \A r \in DrillAnswers(drillCalls[i]) :
       Side_drillAnswered(i, r) =>
         IF drillCalls[i].reqId # drillReqId
         THEN UNCHANGED <<sideTracks, sideEpisodes, artistAlbums, loadingTracks>>
         ELSE /\ ~loadingTracks'
              /\ (r.state = "resolved" /\ Val(r.value).ok) =>
                   Val(r.value).items =
                     (IF drillCalls[i].kind = "episodes" THEN episodes'
                      ELSE IF drillCalls[i].kind = "artist" THEN artistAlbums'
                      ELSE tracks')]_vars

\* A response arrived after another drill-in was opened, and that drill-in is
\* still loading.
C22_Witness ==
  /\ staleDiscarded /\ loadingTracks
  /\ Len(drillCalls) = 1 /\ drillCalls[1].reqId = drillReqId


\* C23: the promise a helper of api.ts returns for an HTTP response resolves
\* with the parsed body when the status is 2xx and rejects with the API error
\* otherwise.
C23_HelpersSettle ==
  (apiPromise # Null /\ Val(apiCall).net.kind = "response")
    => Val(apiPromise) = (IF Val(apiCall).net.ok
                          THEN Resolved(Val(Val(apiCall).net.body))
                          ELSE Rejected("API error"))

\* The search results shown are settled: no debounce timer is armed and no
\* search request is in flight.
SearchSettled == ~debounceRef.armed /\ searchCalls = <<>>

DrillTracksShown ==
  searchOpen /\ drillView \in {Some("album"), Some("playlist")} /\ ~drillLoading

playerEventToLabel(event) ==
  CASE event \in {"playing", "started"} -> "Playing"
    [] event = "paused" -> "Paused"
    [] event \in {"stopped", "unavailable"} -> "Stopped"
    [] event \in {"changed", "preloading"} -> "Loading"
    [] event = "volume_set" -> "Playing"
    [] OTHER -> event
\* The play-state label the panel shows, part_001:351.
playState == IF lastEvent # Null THEN playerEventToLabel(Val(lastEvent).event) ELSE "Idle"

\* C28: the play-state label agrees with isPlaying: it is not Playing while
\* isPlaying is false, and neither Paused nor Stopped while isPlaying is true.
C28_LabelAgreesWithIsPlaying ==
  /\ ~isPlaying => playState # "Playing"
  /\ isPlaying => playState \notin {"Paused", "Stopped"}

\* C29: the result of the initial get_status call, arriving after an agent event
\* has been handled, leaves lastEvent and isPlaying as that event set them.
C29_StatusKeepsLatestEvent ==
  [][\A s \in GetStatusResults :
       (Panel_getStatusResolved(s) /\ lastEvent # Null)
         => (lastEvent' = lastEvent /\ isPlaying' = isPlaying)]_vars


\* The first-page request of the drill-in opened last is pending.
CurrentDrillPending == \E k \in 1..Len(drillCalls) : drillCalls[k].reqId = drillReqId
\* The sidebar's flags: loading covers the library load, loadingTracks the first
\* page of the drill-in opened last and the load-more requests.
SidebarLoadingTruthful ==
  /\ libraryLoads > 0 => loading
  /\ (CurrentDrillPending \/ moreCalls # <<>>) => loadingTracks
  /\ (libraryLoads = 0 /\ drillCalls = <<>> /\ moreCalls = <<>>)
       => (~loading /\ ~loadingTracks)
\* The overlay's flag: loading covers the debounced search, from the input to
\* the response.
SearchLoadingTruthful ==
  /\ (debounceRef.armed \/ searchCalls # <<>>) => searchLoading
  /\ (~debounceRef.armed /\ searchCalls = <<>>) => ~searchLoading

\* C30: in the sidebar and in the search overlay a loading flag is true while a
\* request it covers is pending, and every flag is false once all requests have
\* settled.
C30_LoadingTruthful == SidebarLoadingTruthful /\ SearchLoadingTruthful

====
